---------------------------- MODULE Spec2Model ----------------------------
(***************************************************************************)
(* Model of the OBO Foundry metadata tooling:                              *)
(*   src/src/obofoundry/utils.py              get_data, get_repositories,  *)
(*                                            query_wikidata, get_github,  *)
(*                                            get_github_user              *)
(*   src/src/obofoundry/diversity_analysis.py get_contributors,            *)
(*                                            get_curation_sparql          *)
(*   src/util/util.py                         get_data                     *)
(*                                                                         *)
(* Python strings are sequences of character codes (ASCII), so that        *)
(* str.lower, sorted, removeprefix, rstrip and split are computed on the   *)
(* characters.  None is the one-element sequence <<-1>>, which is no       *)
(* string.                                                                 *)
(***************************************************************************)
EXTENDS Integers, Sequences, FiniteSets, TLC

VARIABLES
    \* ---- the pystow cache directory (the disk) ----
    userFiles,           \* github/user/<u.lower()>.json
    recFiles,            \* obofoundry/analysis/diversity/<prefix>_contributors.json
    \* ---- the process running get_contributors ----
    pc,                  \* where the process is
    run,                 \* number of processes started so far
    token,               \* is the GitHub token configured (pystow.get_config)
    num_calls,           \* the rate limiter's call counter of this process
    elapsed,             \* clock() - last_reset of the rate limiter, in ticks
    todo,                \* the rest of sorted(get_repositories().items())
    prefix,              \* loop variable of line 189
    res_json,            \* line 198, the part of it still to iterate
    login,               \* line 203
    res,                 \* get_github_user's res, line 96
    github_user,         \* line 204
    prefix_contributors, \* line 196 / 201
    authors,             \* line 187
    author_to_prefix,    \* line 188
    req,                 \* the HTTP request the last step sent, or NoReq
    err,                 \* the exception that ended the process, or "none"
    sent,                \* the requests this process sent the code-hosting API
    \* ---- get_curation_sparql ----
    contributors,        \* its argument
    it,                  \* the set comprehension of lines 247-257
    github_logins,       \* line 258, as the sorted list of triples
    \* ---- get_data / get_repositories ----
    documents,           \* the *.md files of ONTOLOGY_DIRECTORY, as lists of lines
    ontologies,          \* what get_data returned
    util_ontologies,     \* what util.get_data returned
    rv,                  \* what get_repositories returned
    \* ---- tests/test_integrity.py ----
    registry,            \* self.ontologies, in the order the dict iterates
    outcome,             \* how the test method that ran ended
    publication,         \* the argument of assert_valid_publication_id
    verdict,             \* how assert_valid_publication_id ended
    \* ---- create_responsible_quickstatements.py ----
    contacts,            \* what get_data() gives copy_maintainer_quickstatements
    bindings,            \* what the graph-query service answers its two queries
    copied               \* what copy_maintainer_quickstatements gave pyperclip.copy

diskVars     == <<userFiles, recFiles>>
procVars     == <<pc, run, token, num_calls, elapsed, todo, prefix, res_json, login,
                  res, github_user, prefix_contributors, authors, author_to_prefix,
                  req, err, sent>>
curationVars == <<contributors, it, github_logins>>
storeVars    == <<documents, ontologies, util_ontologies, rv>>
testVars     == <<registry, outcome, publication, verdict>>
quickVars    == <<contacts, bindings, copied>>
vars         == <<diskVars, procVars, curationVars, storeVars, testVars, quickVars>>

---------------------------------------------------------------------------
(* Bounds of the model *)

\* number of registry records with a repository
NumRecords == 2
\* longest contributor list the code-hosting API answers with
MaxContribs == 1
\* number of processes (first run and restarts) a behaviour starts
MaxRuns == 2
\* the limiter's budget per window: utils.py:69 has calls=5_000, scaled down
Calls == 1
\* the limiter's window in clock ticks: utils.py:69 has period=60*60 s, scaled down
Period == 1

---------------------------------------------------------------------------
(* Python values *)

None == <<-1>>

\* dict.get(key), with its default None
Get(obj, key) == IF key \in DOMAIN obj THEN obj[key] ELSE None

EmptyDict == [k \in {} |-> k]

\* an update that keeps the value a key already has
Update_keep_first(d1, d2) ==
    [k \in DOMAIN d1 \cup DOMAIN d2 |-> IF k \in DOMAIN d1 THEN d1[k] ELSE d2[k]]

\* d1.update(d2)
Update(d1, d2) ==
    [k \in DOMAIN d1 \cup DOMAIN d2 |-> IF k \in DOMAIN d2 THEN d2[k] ELSE d1[k]]

\* str.lower() on ASCII
LowerChar(c) == IF c \in 65..90 THEN c + 32 ELSE c
lower(s) == [i \in 1..Len(s) |-> LowerChar(s[i])]

\* s < t for Python strings: lexicographic on the character codes
StrLess(s, t) ==
    \/ /\ Len(s) < Len(t)
       /\ \A i \in 1..Len(s) : s[i] = t[i]
    \/ \E i \in 1..Len(s) :
          /\ i <= Len(t)
          /\ s[i] < t[i]
          /\ \A j \in 1..(i - 1) : s[j] = t[j]

\* an iteration from the greatest identifier down
RECURSIVE sorted_descending(_)
sorted_descending(S) ==
    IF S = {} THEN <<>>
    ELSE LET m == CHOOSE x \in S : \A y \in S \ {x} : StrLess(y, x)
         IN  <<m>> \o sorted_descending(S \ {m})

\* sorted(S) for a set of strings
RECURSIVE sorted(_)
sorted(S) ==
    IF S = {} THEN <<>>
    ELSE LET m == CHOOSE x \in S : \A y \in S \ {x} : StrLess(x, y)
         IN  <<m>> \o sorted(S \ {m})

---------------------------------------------------------------------------
(* The world get_contributors runs in *)

\* record identifiers, unsorted: "b", "a", "c", "d"
PrefixPool == << <<98>>, <<97>>, <<99>>, <<100>> >>

\* get_repositories(): the identifiers of the records that have a repository
\* (the owner and the name only go into the request's URL)
Repositories == {PrefixPool[i] : i \in 1..NumRecords}

\* usernames the code-hosting API may name: "a", "A", "b"
Logins == {<<97>>, <<65>>, <<98>>}

\* the file names of the per-user cache
UserFileNames == {lower(u) : u \in Logins}

\* a user's profile object, GET /users/{login}: the keys get_contributors reads
Profiles ==
    [name : {None, <<110>>}, email : {None}, bio : {None}, blog : {None},
     company : {None}, twitter_username : {None}]

\* the body of a non-success answer of the code-hosting API
ErrorBody == [message |-> "Not Found", documentation_url |-> "https://docs.github.com/rest"]

\* JSON values as requests' .json() returns them
JList(items) == [t |-> "list", v |-> items]
JObject(obj) == [t |-> "object", v |-> obj]

\* lists of {login, contributions} of at most MaxContribs distinct usernames
RECURSIVE SeqsUpTo(_, _)
SeqsUpTo(S, n) ==
    IF n = 0 THEN {<<>>}
    ELSE LET shorter == SeqsUpTo(S, n - 1)
         IN  shorter \cup {Append(q, x) : q \in {r \in shorter : Len(r) = n - 1}, x \in S}

\* the commit counts a list can give a contributor
ContributionCounts == {1, 2}

ContributorLists ==
    {q \in SeqsUpTo([login : Logins, contributions : ContributionCounts], MaxContribs) :
        \A i, j \in 1..Len(q) : i # j => q[i].login # q[j].login}

\* files
NoFile == [kind |-> "absent"]
TornFile == [kind |-> "torn"]
JsonFile(data) == [kind |-> "json", data |-> data]
\* a test of the file that also validates its content
is_file_parseable(f) == f.kind = "json"
is_file(f) == f.kind # "absent"

NoReq == [kind |-> "none", target |-> <<>>, status |-> "none"]
Request(kind, target, status) == [kind |-> kind, target |-> target, status |-> status]

\* a request as the code-hosting API's log has it: a contributor list of a record's
\* repository (line 199, one page of per_page=100) or a user's profile (utils.py
\* line 95, the username as given)
Sent(kind, target) == [kind |-> kind, target |-> target]

---------------------------------------------------------------------------
(* utils.py: the two network clients *)

\* the answers the code-hosting API can give to a request
Responses(kind) ==
    IF kind = "list"
    THEN {[status |-> "ok", body |-> JList(q)] : q \in ContributorLists}
         \cup {[status |-> "fail", body |-> JObject(ErrorBody)]}
    ELSE {[status |-> "ok", body |-> JObject(p)] : p \in Profiles}
         \cup {[status |-> "fail", body |-> JObject(ErrorBody)]}

\* @rate_limited(calls=5_000, period=60 * 60), ratelimit's RateLimitDecorator as
\* applied at utils.py:69, without sleep_and_retry: a fixed window that is reset
\* when the period has passed, and a call over the budget raises
rate_limited(nc, el) ==
    LET period_remaining == Period - el
        nc0 == IF period_remaining <= 0 THEN 0 ELSE nc
        el0 == IF period_remaining <= 0 THEN 0 ELSE el
    IN  [num_calls |-> nc0 + 1, elapsed |-> el0, admitted |-> nc0 + 1 <= Calls]

\* get_github(url): every way one call can end. raised is the exception, or
\* "none" and then body is what requests.get(...).json() returned: the status
\* of the response is not looked at.
get_github(kind, nc, el, tok) ==
    LET lim == rate_limited(nc, el)
    IN  IF ~lim.admitted
        THEN {[num_calls |-> lim.num_calls, elapsed |-> lim.elapsed,
               raised |-> "RateLimitException", status |-> "none",
               body |-> JObject(ErrorBody)]}
        ELSE IF ~tok
        THEN {[num_calls |-> lim.num_calls, elapsed |-> lim.elapsed,
               raised |-> "ConfigError", status |-> "none",
               body |-> JObject(ErrorBody)]}
        ELSE {[num_calls |-> lim.num_calls, elapsed |-> lim.elapsed,
               raised |-> "none", status |-> r.status, body |-> r.body] :
                 r \in Responses(kind)}

\* json.loads(path.read_text()) raises on a file an interrupted write left
json_loads_ok(f) == f.kind = "json"

---------------------------------------------------------------------------
(* diversity_analysis.py: get_contributors, step by step *)

NoObject == [unset |-> TRUE]

LocalsReset ==
    /\ prefix' = <<>>
    /\ res_json' = JList(<<>>)
    /\ login' = <<>>
    /\ res' = NoObject
    /\ github_user' = NoObject
    /\ prefix_contributors' = EmptyDict
    /\ authors' = EmptyDict
    /\ author_to_prefix' = EmptyDict

Raise(e) ==
    /\ pc' = "raised"
    /\ err' = e

\* a process starts and calls get_contributors: lines 187-190
StartRun ==
    /\ pc \in {"idle", "raised", "done"}
    /\ run < MaxRuns
    /\ run' = run + 1
    /\ token' \in BOOLEAN
    /\ num_calls' = 0
    /\ elapsed' = 0
    /\ LocalsReset
    /\ todo' = sorted(Repositories)
    /\ pc' = "loop"
    /\ req' = NoReq
    /\ err' = "none"
    /\ sent' = <<>>
    /\ UNCHANGED <<diskVars, curationVars, storeVars, testVars, quickVars>>


\* a get_contributors that never looks at the record's file
record_cached_never(p) == FALSE

\* line 195: path.is_file() of the record's contributors file
record_cached(p) == is_file(recFiles[p])

\* a get_github_user that names the file by the username as given
user_path_as_given(u) == u

\* utils.py line 92: the name of the user's file
user_path(u) == lower(u)

\* a get_github_user that never looks at the user's file
user_cached_never(u) == FALSE

\* a get_github_user that looks for the file under the username as given
user_cached_as_given(u) == is_file(userFiles[u])

\* utils.py line 93: path.is_file() of the user's file
user_cached(u) == is_file(userFiles[user_path(u)])

\* lines 205-213
Entry(item, user) ==
    [contributions |-> item.contributions,
     name |-> Get(user, "name"),
     email |-> Get(user, "email"),
     bio |-> Get(user, "bio"),
     blog |-> Get(user, "blog"),
     company |-> Get(user, "company"),
     twitter_username |-> Get(user, "twitter_username")]

\* json.dumps(obj, indent=2, sort_keys=True) written to a file, and json.loads of
\* it: the values are dicts of str keys with str, int and None values, which the
\* pair gives back equal (the order of the keys, which a dict's equality does not
\* see, becomes the sorted one)
json_dumps(obj) == JsonFile(obj)
json_loads(f) == f.data

\* lines 189-197: the head of the loop and the look at the record's file
LoopHead ==
    /\ pc = "loop"
    /\ req' = NoReq
    /\ IF todo = <<>>
       THEN /\ pc' = "merge"
            /\ UNCHANGED <<todo, prefix, prefix_contributors, err>>
       ELSE /\ prefix' = Head(todo)
            /\ todo' = Tail(todo)
            /\ IF record_cached(Head(todo))
               THEN IF json_loads_ok(recFiles[Head(todo)])
                    THEN /\ prefix_contributors' = json_loads(recFiles[Head(todo)])
                         /\ pc' = "accumulate"
                         /\ UNCHANGED err
                    ELSE /\ Raise("JSONDecodeError")
                         /\ UNCHANGED prefix_contributors
               ELSE /\ pc' = "fetch"
                    /\ UNCHANGED <<prefix_contributors, err>>
    /\ UNCHANGED <<sent, run, token, num_calls, elapsed, res_json, login, res, github_user,
                   authors, author_to_prefix>>
    /\ UNCHANGED <<diskVars, curationVars, storeVars, testVars, quickVars>>

\* lines 198-201: the contributor-list request
FetchList ==
    /\ pc = "fetch"
    /\ \E o \in get_github("list", num_calls, elapsed, token) :
          /\ num_calls' = o.num_calls
          /\ elapsed' = o.elapsed
          /\ IF o.raised # "none"
             THEN /\ Raise(o.raised)
                  /\ req' = NoReq
                  /\ UNCHANGED <<res_json, prefix_contributors, sent>>
             ELSE /\ req' = Request("list", prefix, o.status)
                  /\ sent' = Append(sent, Sent("list", prefix))
                  /\ res_json' = o.body
                  /\ prefix_contributors' = EmptyDict
                  /\ pc' = "users"
                  /\ UNCHANGED err
    /\ UNCHANGED <<run, token, todo, prefix, login, res, github_user, authors,
                   author_to_prefix>>
    /\ UNCHANGED <<diskVars, curationVars, storeVars, testVars, quickVars>>

\* lines 202-204 and utils.py lines 92-94: the next contributor of the list, and
\* get_github_user up to its look at the user's file
NextContributor ==
    /\ pc = "users"
    /\ req' = NoReq
    /\ IF res_json.t = "object"
       THEN \* iterating a dict yields its keys, and str["login"] is a TypeError
            /\ Raise("TypeError")
            /\ UNCHANGED <<res_json, login, github_user, prefix_contributors>>
       ELSE IF res_json.v = <<>>
       THEN /\ pc' = "write"
            /\ UNCHANGED <<res_json, login, github_user, prefix_contributors, err>>
       ELSE LET item == Head(res_json.v)
            IN  /\ login' = item.login
                /\ IF user_cached(item.login)
                   THEN IF json_loads_ok(userFiles[user_path(item.login)])
                        THEN /\ github_user' = json_loads(userFiles[user_path(item.login)])
                             /\ prefix_contributors' =
                                  Update(prefix_contributors,
                                         [k \in {item.login} |-> Entry(item, github_user')])
                             /\ res_json' = JList(Tail(res_json.v))
                             /\ pc' = "users"
                             /\ UNCHANGED err
                        ELSE /\ Raise("JSONDecodeError")
                             /\ UNCHANGED <<res_json, github_user, prefix_contributors>>
                   ELSE /\ pc' = "user_fetch"
                        /\ UNCHANGED <<res_json, github_user, prefix_contributors, err>>
    /\ UNCHANGED <<sent, run, token, num_calls, elapsed, todo, prefix, res, authors,
                   author_to_prefix>>
    /\ UNCHANGED <<diskVars, curationVars, storeVars, testVars, quickVars>>

\* utils.py lines 95-96: the profile request
UserFetch ==
    /\ pc = "user_fetch"
    /\ \E o \in get_github("user", num_calls, elapsed, token) :
          /\ num_calls' = o.num_calls
          /\ elapsed' = o.elapsed
          /\ IF o.raised # "none"
             THEN /\ Raise(o.raised)
                  /\ req' = NoReq
                  /\ UNCHANGED <<res, sent>>
             ELSE /\ req' = Request("user", login, o.status)
                  /\ sent' = Append(sent, Sent("user", login))
                  /\ res' = o.body.v
                  /\ pc' = "user_write"
                  /\ UNCHANGED err
    /\ UNCHANGED <<run, token, todo, prefix, res_json, login, github_user,
                   prefix_contributors, authors, author_to_prefix>>
    /\ UNCHANGED <<diskVars, curationVars, storeVars, testVars, quickVars>>

\* utils.py lines 97-98 and lines 205-213: the profile is written and returned
UserWrite ==
    /\ pc = "user_write"
    /\ req' = NoReq
    /\ userFiles' = [userFiles EXCEPT ![user_path(login)] = json_dumps(res)]
    /\ github_user' = res
    /\ res' = NoObject
    /\ prefix_contributors' =
         Update(prefix_contributors,
                [k \in {login} |-> Entry(Head(res_json.v), res)])
    /\ res_json' = JList(Tail(res_json.v))
    /\ pc' = "users"
    /\ UNCHANGED <<sent, run, token, num_calls, elapsed, todo, prefix, login, authors,
                   author_to_prefix, err, recFiles>>
    /\ UNCHANGED <<curationVars, storeVars, testVars, quickVars>>

\* line 214
WriteRecord ==
    /\ pc = "write"
    /\ req' = NoReq
    /\ recFiles' = [recFiles EXCEPT ![prefix] = json_dumps(prefix_contributors)]
    /\ pc' = "accumulate"
    /\ UNCHANGED <<sent, run, token, num_calls, elapsed, todo, prefix, res_json, login, res,
                   github_user, prefix_contributors, authors, author_to_prefix, err,
                   userFiles>>
    /\ UNCHANGED <<curationVars, storeVars, testVars, quickVars>>

\* lines 215-217
Accumulate ==
    /\ pc = "accumulate"
    /\ req' = NoReq
    /\ author_to_prefix' =
         [a \in DOMAIN author_to_prefix \cup DOMAIN prefix_contributors |->
            (IF a \in DOMAIN author_to_prefix THEN author_to_prefix[a] ELSE {})
            \cup (IF a \in DOMAIN prefix_contributors THEN {prefix} ELSE {})]
    /\ authors' = Update(authors, prefix_contributors)
    /\ pc' = "loop"
    /\ UNCHANGED <<sent, run, token, num_calls, elapsed, todo, prefix, res_json, login, res,
                   github_user, prefix_contributors, err>>
    /\ UNCHANGED <<diskVars, curationVars, storeVars, testVars, quickVars>>

\* a merge that leaves the contributor's record as it is
WithPrefixes_skipped(entry, prefixes) == entry

\* authors[author]["prefixes"] = prefixes
WithPrefixes(entry, prefixes) ==
    [k \in DOMAIN entry \cup {"prefixes"} |->
        IF k = "prefixes" THEN prefixes ELSE entry[k]]

\* lines 218-220
Merge ==
    /\ pc = "merge"
    /\ req' = NoReq
    /\ authors' =
         [a \in DOMAIN authors |->
            IF a \in DOMAIN author_to_prefix
            THEN WithPrefixes(authors[a], author_to_prefix[a])
            ELSE authors[a]]
    /\ pc' = "returned"
    /\ UNCHANGED <<sent, run, token, num_calls, elapsed, todo, prefix, res_json, login, res,
                   github_user, prefix_contributors, author_to_prefix, err>>
    /\ UNCHANGED <<diskVars, curationVars, storeVars, testVars, quickVars>>


\* utils.py lines 55-66: query_wikidata, given the status of the endpoint's answer:
\* res.raise_for_status() raises on a non-success status
query_wikidata(status) ==
    IF status = "ok"
    THEN [raised |-> "none", returned |-> TRUE]
    ELSE [raised |-> "HTTPError", returned |-> FALSE]

\* main(), lines 283-287: the three graph queries that follow get_contributors
QueryWikidata ==
    /\ pc \in {"returned", "queried1", "queried2"}
    /\ \E status \in {"ok", "fail"} :
          /\ req' = Request("sparql", <<>>, status)
          /\ IF query_wikidata(status).raised # "none"
             THEN Raise(query_wikidata(status).raised)
             ELSE /\ pc' = CASE pc = "returned" -> "queried1"
                             [] pc = "queried1" -> "queried2"
                             [] OTHER -> "done"
                  /\ UNCHANGED err
    /\ UNCHANGED <<sent, run, token, num_calls, elapsed, todo, prefix, res_json, login, res,
                   github_user, prefix_contributors, authors, author_to_prefix>>
    /\ UNCHANGED <<diskVars, curationVars, storeVars, testVars, quickVars>>

Running == {"loop", "fetch", "users", "user_fetch", "user_write", "write",
            "accumulate", "merge", "returned", "queried1", "queried2"}

\* the process is interrupted (killed) between two steps, or inside a write_text:
\* the file was opened, which creates or truncates it, and not all was written
Interrupt ==
    /\ pc \in Running
    /\ pc' = "idle"
    /\ err' = "KeyboardInterrupt"
    /\ req' = NoReq
    /\ todo' = <<>>
    /\ LocalsReset
    /\ \/ UNCHANGED diskVars
       \/ /\ pc = "user_write"
          /\ userFiles' = [userFiles EXCEPT ![user_path(login)] = TornFile]
          /\ UNCHANGED recFiles
       \/ /\ pc = "write"
          /\ recFiles' = [recFiles EXCEPT ![prefix] = TornFile]
          /\ UNCHANGED userFiles
    /\ UNCHANGED <<sent, run, token, num_calls, elapsed>>
    /\ UNCHANGED <<curationVars, storeVars, testVars, quickVars>>

\* time passes: the limiter's clock() advances by one tick
Tick ==
    /\ pc \in Running
    /\ elapsed < Period
    /\ elapsed' = elapsed + 1
    /\ req' = NoReq
    /\ UNCHANGED <<sent, pc, run, token, num_calls, todo, prefix, res_json, login, res,
                   github_user, prefix_contributors, authors, author_to_prefix, err>>
    /\ UNCHANGED <<diskVars, curationVars, storeVars, testVars, quickVars>>

\* the variables of the other operations, at rest
CurationIdle ==
    /\ contributors = EmptyDict
    /\ it = {}
    /\ github_logins = None

\* what a call gave: the exception it raised, or "none" and the value it returned
NotCalled == [raised |-> "not called", value |-> EmptyDict]
Returned(v) == [raised |-> "none", value |-> v]
Raised(e) == [raised |-> e, value |-> EmptyDict]

StoreIdle ==
    /\ documents = <<>>
    /\ ontologies = NotCalled
    /\ util_ontologies = NotCalled
    /\ rv = NotCalled

\* no test method ran
NotRun == [test |-> "none", evaluated |-> {}, reported |-> {}, messages |-> {},
           aborted |-> FALSE]

TestIdle ==
    /\ registry = <<>>
    /\ outcome = NotRun
    /\ publication = EmptyDict
    /\ verdict = "not called"

QuickIdle ==
    /\ contacts = <<>>
    /\ bindings = <<>>
    /\ copied = NotCalled

ProcIdle ==
    /\ pc = "idle"
    /\ run = 0
    /\ token = TRUE
    /\ num_calls = 0
    /\ elapsed = 0
    /\ todo = <<>>
    /\ prefix = <<>>
    /\ res_json = JList(<<>>)
    /\ login = <<>>
    /\ res = NoObject
    /\ github_user = NoObject
    /\ prefix_contributors = EmptyDict
    /\ authors = EmptyDict
    /\ author_to_prefix = EmptyDict
    /\ req = NoReq
    /\ err = "none"
    /\ sent = <<>>

DiskEmpty ==
    /\ userFiles = [n \in UserFileNames \cup Logins |-> NoFile]
    /\ recFiles = [p \in Repositories |-> NoFile]

\* an empty cache directory and no process
Init ==
    /\ DiskEmpty
    /\ ProcIdle
    /\ CurationIdle
    /\ StoreIdle
    /\ TestIdle
    /\ QuickIdle

Next ==
    \/ StartRun
    \/ LoopHead
    \/ FetchList
    \/ NextContributor
    \/ UserFetch
    \/ UserWrite
    \/ WriteRecord
    \/ Accumulate
    \/ Merge
    \/ QueryWikidata
    \/ Interrupt
    \/ Tick

Spec == Init /\ [][Next]_vars

---------------------------------------------------------------------------
(* Properties of get_contributors, get_github_user and the two clients *)

\* a step of the process itself: not its interruption, not the passing of time
ProcessStep == pc' # "idle" /\ ~(pc' = pc /\ elapsed' # elapsed)

CodeHostingRequest(r) == r.kind \in {"list", "user"}

\* C1: when the record's contributors file exists, processing the record sends
\* no request to the code-hosting API (no request is ever sent while the current
\* record has a file), makes no get_github call, takes the file's content as the
\* record's mapping, and leaves the file as it is.
C1_CacheHitNoNetwork ==
    [][ /\ CodeHostingRequest(req') => ~is_file(recFiles[prefix'])
        /\ \A p \in Repositories :
              ( /\ pc = "loop"
                /\ ProcessStep
                /\ todo # <<>>
                /\ Head(todo) = p
                /\ is_file(recFiles[p]) )
              => /\ req' = NoReq
                 /\ num_calls' = num_calls
                 /\ recFiles' = recFiles
                 /\ userFiles' = userFiles
                 /\ pc' \in {"accumulate", "raised"}
                 /\ pc' = "accumulate" => prefix_contributors' = recFiles[p].data
        /\ \A p \in Repositories :
              (prefix = p /\ pc = "accumulate" /\ ProcessStep)
              => (req' = NoReq /\ recFiles'[p] = recFiles[p])
      ]_vars

\* C1 witness: a restarted process that has made no get_github call holds, for the
\* record it is at, the non-empty mapping of the record's file.
C1_Witness ==
    /\ run = 2
    /\ pc = "accumulate"
    /\ num_calls = 0
    /\ recFiles[prefix].kind = "json"
    /\ recFiles[prefix].data # EmptyDict
    /\ prefix_contributors = recFiles[prefix].data

\* C2: in every run, the first and the restarted ones, a contributor-list
\* request is sent only for a record whose file is absent and a profile request
\* only for a user whose file is absent, while processing a record whose file
\* is absent.
C2_FetchOnlyWhatIsNotCached ==
    [][ /\ req'.kind = "list" =>
              /\ req'.target = prefix
              /\ ~is_file(recFiles[req'.target])
        /\ req'.kind = "user" =>
              /\ ~is_file(userFiles[lower(req'.target)])
              /\ ~is_file(recFiles[prefix])
      ]_vars

\* C2 witness: a restarted process finds the first record's file, which an
\* earlier process that did not finish left, and has just sent the
\* contributor-list request of the second record.
C2_Witness ==
    /\ run = 2
    /\ req.kind = "list"
    /\ req.target = <<98>>
    /\ recFiles[<<97>>].kind = "json"
    /\ recFiles[<<98>>].kind = "absent"

\* C3: get_github_user(u) with the file of lower(u) present makes no get_github
\* call and no request and returns the file's content (or fails to parse it);
\* with the file absent it makes one get_github call, for u, and writes what
\* the call returned to the file of lower(u), and returns that.
C3_UserCacheKeyedByLower ==
    [][ /\ ( /\ pc = "users"
             /\ ProcessStep
             /\ res_json.t = "list"
             /\ res_json.v # <<>> )
           => LET u == Head(res_json.v).login
                  f == userFiles[lower(u)]
              IN  IF is_file(f)
                  THEN /\ req' = NoReq
                       /\ num_calls' = num_calls
                       /\ userFiles' = userFiles
                       /\ pc' \in {"users", "raised"}
                       /\ pc' = "users" => github_user' = f.data
                  ELSE /\ pc' = "user_fetch"
                       /\ login' = u
                       /\ req' = NoReq
        /\ (pc = "user_fetch" /\ ProcessStep)
           => /\ num_calls' \in {num_calls + 1, 1}
              /\ userFiles' = userFiles
              /\ pc' \in {"user_write", "raised"}
              /\ pc' = "user_write" =>
                    (req' = Request("user", login, req'.status) /\ req'.status # "none")
              /\ pc' = "raised" => req' = NoReq
        /\ (pc = "user_write" /\ ProcessStep)
           => /\ userFiles' = [userFiles EXCEPT ![lower(login)] = JsonFile(res)]
              /\ github_user' = res
              /\ req' = NoReq
              /\ num_calls' = num_calls
      ]_vars

\* C3 witness: within one run, after "a" was a contributor of the first record,
\* "A" is a contributor of the second and its profile is the content of the one
\* file a.json; there is no file A.json.
C3_Witness ==
    /\ run = 1
    /\ prefix = <<98>>
    /\ pc = "users"
    /\ login = <<65>>
    /\ <<65>> \in DOMAIN prefix_contributors
    /\ recFiles[<<97>>].kind = "json"
    /\ <<97>> \in DOMAIN recFiles[<<97>>].data
    /\ userFiles[<<97>>].kind = "json"
    /\ github_user = userFiles[<<97>>].data
    /\ userFiles[<<65>>].kind = "absent"

\* C9: a non-success status of either service ends the call with an error, and
\* no cache file holds the body of such an answer.
C9_NonSuccessPropagates ==
    /\ req.status = "fail" => pc = "raised"
    /\ \A n \in DOMAIN userFiles : userFiles[n] # JsonFile(ErrorBody)

\* C10: a get_github call is never ended by the limiter's exception.
C10_BudgetNeverRaises ==
    err # "RateLimitException"

---------------------------------------------------------------------------
(* diversity_analysis.py: the exclusion set, the override table and           *)
(* get_curation_sparql                                                        *)

\* most contributors of the relation get_curation_sparql is given
MaxCurated == 2

\* lines 45-103: the set literal, each string as its character codes
login_blacklist_literal ==
    {
      <<103,105,116,104,117,98,45,97,99,116,105,111,110,115,91,98,111,116,93>>,  \* github-actions[bot]
      <<100,101,112,101,110,100,97,98,111,116,91,98,111,116,93>>,  \* dependabot[bot]
      <<117,98,101,114,111,110>>,  \* uberon
      <<114,115,99,45,111,110,116,111,108,111,103,105,101,115>>,  \* rsc-ontologies
      <<116,120,112,111,45,111,110,116,111,108,111,103,121>>,  \* txpo-ontology
      <<97,99,116,105,111,110,115,45,117,115,101,114>>,  \* actions-user
      <<111,110,116,111,98,111,116>>,  \* ontobot
      <<71,111,111,103,108,101,67,111,100,101,69,120,112,111,114,116,101,114>>,  \* GoogleCodeExporter
      <<108,97,98,100,97>>,  \* labda
      <<98,98,111,112,106,101,110,107,105,110,115>>,  \* bbopjenkins
      <<101,99,104,105,110,111,100,101,114,109,45,111,110,116,111,108,111,103,121>>,  \* echinoderm-ontology
      <<79,110,84,111,111,108,111,103,121,85,115,101,114>>,  \* OnToologyUser
      <<115,99,100,111,100,101,118>>,  \* scdodev
      <<119,109,98,105,111>>,  \* wmbio
      <<87,77,66,105,111>>,  \* WMBio
      <<65,110,116,111,110,97,114,99,116,105,99,97>>,  \* Antonarctica
      <<74,103,117,122,109,97,110,50,49,48>>,  \* Jguzman210
      <<104,101,108,101,110,97,109,97,99,104,97,100,111>>,  \* helenamachado
      <<99,99,97,100,101,116,101>>,  \* ccadete
      <<112,115,121,114,101,98,101,99,99,97>>,  \* psyrebecca
      <<82,101,110,97,45,89,97,110,103,45,99,101,108,108>>,  \* Rena-Yang-cell
      <<112,97,117,108,98,114,111,119,110,101>>,  \* paulbrowne
      <<104,115,116,114,97,99,104,97,110>>,  \* hstrachan
      <<101,117,110,105,99,101,121,105>>,  \* euniceyi
      <<116,97,109,117,122,104,111,117>>,  \* tamuzhou
      <<101,106,111,104,110,115,111,110,49>>,  \* ejohnson1
      <<68,105,101,103,111,82,101,103,97,108,97,100,111>>,  \* DiegoRegalado
      <<107,98,100,104,97,97,114>>,  \* kbdhaar
      <<97,101,99,104,99,104,105,107,105>>,  \* aechchiki
      <<100,97,110,105,101,108,119,101,108,99,104>>,  \* danielwelch
      <<101,109,113,117,97,114,100,111,107,117,115>>,  \* emquardokus
      <<109,102,106,97,99,107,115,111,110>>,  \* mfjackson
      <<98,107,114,45,105,111,116,105,99>>,  \* bkr-iotic
      <<105,110,100,105,101,100,111,116,107,105,109>>,  \* indiedotkim
      <<116,110,97,118,97,116,97,114>>,  \* tnavatar
      <<119,105,108,100,108,105,102,101,104,101,120,97,103,111,110>>,  \* wildlifehexagon
      <<67,77,67,111,115,116,97>>,  \* CMCosta
      <<72,117,102,102,109,97,97,114>>,  \* Huffmaar
      <<106,111,110,97,116,104,97,110,98,111,110,97>>,  \* jonathanbona
      <<104,106,101,108,108,105,115>>,  \* hjellis
      <<99,49,53,109,110,119>>,  \* c15mnw
      <<121,112,97,110,100,105,116>>,  \* ypandit
      <<100,101,99,111,114,111,110,115>>,  \* decorons
      <<115,101,121,109,111,117,114,109,101,103,97,110>>,  \* seymourmegan
      <<98,45,115,104,101,112,112,97,114,100>>,  \* b-sheppard
      <<110,115,101,119,110,97,116,104>>   \* nsewnath
    }

\* lines 108-143: the override table, username -> ORCID
github_to_orcid ==
    (<<115,101,108,106,97,115,101,112,112,97,108,97>> :> "0000-0002-0791-1347")  \* seljaseppala
    @@ (<<115,106,98,111,115,116>> :> "0000-0001-8553-9539")  \* sjbost
    @@ (<<99,111,115,109,105,99,110,101,116>> :> "0000-0003-3267-4993")  \* cosmicnet
    @@ (<<105,119,105,108,107,105,101>> :> "0000-0003-1072-8081")  \* iwilkie
    @@ (<<99,101,108,105,110,101,97,117,98,101,114,116>> :> "0000-0001-6284-4821")  \* celineaubert
    @@ (<<67,111,111,112,101,114,83,116,97,110,115,98,117,114,121>> :> "0000-0003-2413-8314")  \* CooperStansbury
    @@ (<<97,117,115,116,105,110,109,101,105,101,114>> :> "0000-0001-6996-0040")  \* austinmeier
    @@ (<<65,117,100,97,108,100>> :> "0000-0001-6272-9639")  \* Audald
    @@ (<<65,110,111,111,115,104,97,45,83,101,104,97,114>> :> "0000-0001-5275-8866")  \* Anoosha-Sehar
    @@ (<<97,100,98,97,114,116,110,105>> :> "0000-0001-9676-7377")  \* adbartni
    @@ (<<106,111,104,110,119,106,117,100,107,105,110,115>> :> "0000-0001-6595-0902")  \* johnwjudkins
    @@ (<<104,117,106,111,57,49>> :> "0000-0002-4378-6061")  \* hujo91
    @@ (<<106,109,105,108,108,97,110,97,99,111,115,116,97>> :> "0000-0002-4166-7093")  \* jmillanacosta
    @@ (<<106,111,110,97,116,104,97,110,118,97,106,100,97>> :> "0000-0003-4693-5218")  \* jonathanvajda
    @@ (<<117,98,121,110,100,114>> :> "0000-0002-6012-3729")  \* ubyndr
    @@ (<<104,100,114,97,98,107,105,110>> :> "0000-0003-2689-5511")  \* hdrabkin
    @@ (<<114,117,115,104,116,111,110,103>> :> "0000-0002-4648-4229")  \* rushtong
    @@ (<<101,112,111,110,116,101,108,108>> :> "0000-0002-7753-1737")  \* epontell
    @@ (<<69,108,105,111,116,82,97,103,117,101,110,101,97,117>> :> "0000-0002-7876-6503")  \* EliotRagueneau
    @@ (<<97,110,110,97,100,117,110,110,51>> :> "0000-0003-2852-7755")  \* annadunn3
    @@ (<<107,97,116,105,101,114,109,117,108,108,101,110>> :> "0000-0002-5002-8648")  \* katiermullen
    @@ (<<104,107,105,114,45,100,101,118>> :> "0000-0002-3315-2794")  \* hkir-dev
    @@ (<<100,101,108,112,104,105,110,101,100,97,117,103,97>> :> "0000-0003-3152-1194")  \* delphinedauga
    @@ (<<99,104,97,109,98,109>> :> "0000-0001-6382-3344")  \* chambm
    @@ (<<114,117,100,110,105,99,107,105>> :> "0000-0001-7235-5511")  \* rudnicki
    @@ (<<109,97,114,107,45,106,101,110,115,101,110>> :> "0000-0001-9228-8838")  \* mark-jensen
    @@ (<<116,117,116,97,106,109>> :> "0000-0002-1025-101X")  \* tutajm
    @@ (<<117,116,101,99,104,116>> :> "0000-0002-7451-0439")  \* utecht
    @@ (<<104,111,108,103,101,114,45,115,116,101,110,122,104,111,114,110>> :> "0000-0001-9744-174X")  \* holger-stenzhorn
    @@ (<<97,109,97,110,106,101,101,118>> :> "0000-0002-2695-0579")  \* amanjeev
    @@ (<<115,114,121,110,111,98,105,111>> :> "0000-0002-1638-5377")  \* srynobio
    @@ (<<99,109,114,110,45,114,104,105>> :> "0000-0002-9578-0788")  \* cmrn-rhi
    @@ (<<83,116,114,111,101,109,80,104,105>> :> "0000-0002-1595-3213")  \* StroemPhi
    @@ (<<104,97,111,121,117,97,110,108,105>> :> "0000-0002-2554-4835")  \* haoyuanli

\* the exclusion set without line 144
login_blacklist_not_updated == login_blacklist_literal

\* line 144: login_blacklist.update(set(github_to_orcid))
login_blacklist == login_blacklist_literal \cup DOMAIN github_to_orcid

\* '"' + s + '"'
Quote(s) == <<34>> \o s \o <<34>>

\* s.replace('"', "")
remove_quotes(s) == SelectSeq(s, LAMBDA c : c # 34)

\* sep.join(q) for a list of strings
RECURSIVE join(_, _)
join(sep, q) ==
    IF q = <<>> THEN <<>>
    ELSE IF Len(q) = 1 THEN q[1]
    ELSE q[1] \o sep \o join(sep, Tail(q))

\* a < b for tuples of strings of one length
TupleLess(a, b) ==
    \E i \in 1..Len(a) :
       /\ StrLess(a[i], b[i])
       /\ \A j \in 1..(i - 1) : a[j] = b[j]

\* the triples from the greatest down
RECURSIVE sorted_tuples_descending(_)
sorted_tuples_descending(S) ==
    IF S = {} THEN <<>>
    ELSE LET m == CHOOSE x \in S : \A y \in S \ {x} : TupleLess(y, x)
         IN  <<m>> \o sorted_tuples_descending(S \ {m})

\* sorted(S) for a set of tuples of strings
RECURSIVE sorted_tuples(_)
sorted_tuples(S) ==
    IF S = {} THEN <<>>
    ELSE LET m == CHOOSE x \in S : \A y \in S \ {x} : TupleLess(x, y)
         IN  <<m>> \o sorted_tuples(S \ {m})

\* line 256: the condition of the comprehension
not_blacklisted(u) == lower(u) \notin login_blacklist /\ u \notin login_blacklist

\* lines 247-257: the set of triples
curation_it(c) ==
    { << Quote(u),
         IF c[u].name = None THEN <<85,78,68,69,70>>   \* UNDEF
         ELSE Quote(remove_quotes(c[u].name)),
         Quote(join(<<44,32>>, sorted(c[u].prefixes))) >> :
      u \in {v \in DOMAIN c : not_blacklisted(v)} }

\* line 258: " ".join("(" + " ".join(t) + ")" for t in sorted(it))
curation_values(triples) ==
    LET q == sorted_tuples(triples)
    IN  join(<<32>>, [i \in 1..Len(q) |-> <<40>> \o join(<<32>>, q[i]) \o <<41>>])

\* the usernames of the relations tried: uberon, Uberon, GoogleCodeExporter,
\* googlecodeexporter, seljaseppala, CooperStansbury, cooperstansbury, cthoyt
CurationLogins ==
    { <<117,98,101,114,111,110>>,
      <<85,98,101,114,111,110>>,
      <<71,111,111,103,108,101,67,111,100,101,69,120,112,111,114,116,101,114>>,
      <<103,111,111,103,108,101,99,111,100,101,101,120,112,111,114,116,101,114>>,
      <<115,101,108,106,97,115,101,112,112,97,108,97>>,
      <<67,111,111,112,101,114,83,116,97,110,115,98,117,114,121>>,
      <<99,111,111,112,101,114,115,116,97,110,115,98,117,114,121>>,
      <<99,116,104,111,121,116>> }

\* a contributor's record, as far as get_curation_sparql reads it: the name
\* (None, n, a"b) and the record identifiers (of a, b)
CurationData ==
    [name : {None, <<110>>, <<97,34,98>>},
     prefixes : (SUBSET {<<97>>, <<98>>}) \ {{}}]

ContributorRelations ==
    UNION {[S -> CurationData] :
             S \in {T \in SUBSET CurationLogins : Cardinality(T) <= MaxCurated}}

\* get_curation_sparql(contributors), lines 246-277; the text around the inline
\* enumeration is constant
GetCurationSparql ==
    /\ github_logins = None
    /\ it' = curation_it(contributors)
    /\ github_logins' = curation_values(it')
    /\ UNCHANGED <<contributors, diskVars, procVars, storeVars, testVars, quickVars>>

InitCuration ==
    /\ DiskEmpty
    /\ ProcIdle
    /\ StoreIdle
    /\ TestIdle
    /\ QuickIdle
    /\ contributors \in ContributorRelations
    /\ it = {}
    /\ github_logins = None

NextCuration == GetCurationSparql

SpecCuration == InitCuration /\ [][NextCuration]_vars

\* the triple of username u is part of the inline enumeration
Carried(u) == \E t \in it : t[1] = Quote(u)

\* C4: no username of the exclusion set and no key of the override table is
\* carried by the inline enumeration, whatever its name and record identifiers
\* are; the exclusion set holds every key of the override table.
C4_ExcludedNeverCarried ==
    github_logins # None =>
       /\ DOMAIN github_to_orcid \subseteq login_blacklist
       /\ \A u \in DOMAIN contributors :
             (u \in login_blacklist_literal \/ u \in DOMAIN github_to_orcid)
                => ~Carried(u)

\* C4 witness: the query was built for a relation that holds the override key
\* seljaseppala and cthoyt, and carries one triple, cthoyt's.
C4_Witness ==
    /\ github_logins # None
    /\ DOMAIN contributors =
         {<<115,101,108,106,97,115,101,112,112,97,108,97>>, <<99,116,104,111,121,116>>}
    /\ Cardinality(it) = 1
    /\ Carried(<<99,116,104,111,121,116>>)

\* C5: a username that equals an entry of the exclusion set up to letter case is
\* not carried by the inline enumeration.
C5_ExclusionIgnoresCase ==
    github_logins # None =>
       \A u \in DOMAIN contributors :
          (\E e \in login_blacklist : lower(e) = lower(u)) => ~Carried(u)

---------------------------------------------------------------------------
(* utils.py and util/util.py: get_data; utils.py: get_repositories *)

\* most lines of a document of the store
MaxLines == 4

\* the marker line ---
Marker == <<45,45,45>>

\* keys of a record: id, repository, long_description
K_id == <<105,100>>
K_repository == <<114,101,112,111,115,105,116,111,114,121>>
K_long_description == <<108,111,110,103,95,100,101,115,99,114,105,112,116,105,111,110>>

\* the position of the first occurrence of sub in s, 0 when there is none
Find(s, sub) ==
    LET at == {i \in 1..(Len(s) - Len(sub) + 1) : SubSeq(s, i, i + Len(sub) - 1) = sub}
    IN  IF at = {} THEN 0 ELSE CHOOSE i \in at : \A j \in at : i <= j

\* sub in s
contains(s, sub) == Find(s, sub) # 0

\* a line "key: value" or "key:" of a block mapping
IsKeyValue(line) ==
    \/ Find(line, <<58,32>>) > 1
    \/ (Len(line) > 1 /\ line[Len(line)] = 58 /\ Find(line, <<58>>) = Len(line))

KeyOf(line) == SubSeq(line, 1, Find(line, <<58>>) - 1)
ValueOf(line) ==
    IF Find(line, <<58,32>>) > 1 /\ Find(line, <<58,32>>) + 2 <= Len(line)
    THEN SubSeq(line, Find(line, <<58,32>>) + 2, Len(line))
    ELSE None

\* yaml.safe_load("\n".join(block)) for blocks of "key: value" lines and lines of
\* plain text: no line gives None, key-value lines give the mapping (a repeated
\* key keeps its last value), lines of text give a string, and a mix of the two
\* is no YAML
yaml_safe_load(block) ==
    IF block = <<>> THEN [kind |-> "none", value |-> EmptyDict]
    ELSE IF \A i \in 1..Len(block) : IsKeyValue(block[i])
    THEN [kind |-> "dict",
          value |-> [k \in {KeyOf(block[i]) : i \in 1..Len(block)} |->
                       ValueOf(block[CHOOSE i \in 1..Len(block) :
                                  /\ KeyOf(block[i]) = k
                                  /\ \A j \in (i + 1)..Len(block) : KeyOf(block[j]) # k])]]
    ELSE IF \A i \in 1..Len(block) : ~IsKeyValue(block[i])
    THEN [kind |-> "str", value |-> EmptyDict]
    ELSE [kind |-> "error", value |-> EmptyDict]

\* "".join(q)
concat(q) == join(<<>>, q)

\* line 28: min(i for i, line in enumerate(lines[1:], start=1) if line == "---"),
\* as a position counted from 1; 0 when there is none (min raises ValueError)
closing_marker(lines) ==
    LET at == {i \in 2..Len(lines) : lines[i] = Marker}
    IN  IF at = {} THEN 0 ELSE CHOOSE i \in at : \A j \in at : i <= j

\* utils.py line 32: "".join(lines[idx:])
long_description_of(lines, idx) == concat(SubSeq(lines, idx, Len(lines)))

\* a get_data that does not look for the closing marker and reads all the rest
front_matter_unclosed(lines) ==
    IF lines = <<>> THEN Raised("IndexError")
    ELSE IF lines[1] # Marker THEN Raised("AssertionError")
    ELSE LET last == IF closing_marker(lines) = 0 THEN Len(lines) + 1
                     ELSE closing_marker(lines)
             data == yaml_safe_load(SubSeq(lines, 2, last - 1))
         IN  IF data.kind = "error" THEN Raised("YAMLError")
             ELSE IF data.kind # "dict" THEN Raised("TypeError")
             ELSE Returned(data.value)

\* the parse of a document's head, lines 27-31 of utils.py and 23-27 of util.py
front_matter(lines) ==
    IF lines = <<>> THEN Raised("IndexError")
    ELSE IF lines[1] # Marker THEN Raised("AssertionError")
    ELSE IF closing_marker(lines) = 0 THEN Raised("ValueError")
    ELSE LET data == yaml_safe_load(SubSeq(lines, 2, closing_marker(lines) - 1))
         IN  IF data.kind = "error" THEN Raised("YAMLError")
             ELSE IF data.kind # "dict" THEN Raised("TypeError")
             ELSE Returned(data.value)

\* utils.py lines 24-33, one document: the record, with its long_description
get_data_file(lines) ==
    LET head == front_matter(lines)
    IN  IF head.raised # "none" THEN head
        ELSE IF K_id \notin DOMAIN head.value THEN Raised("KeyError")
        ELSE Returned(Update(head.value,
                             [k \in {K_long_description} |->
                                long_description_of(lines, closing_marker(lines))]))

\* util/util.py lines 20-28, one document
util_get_data_file(lines) ==
    LET head == front_matter(lines)
    IN  IF head.raised # "none" THEN head
        ELSE IF K_id \notin DOMAIN head.value THEN Raised("KeyError")
        ELSE head

\* the loop over the documents: the first exception ends the call, a later
\* document of the same id replaces the earlier record
RECURSIVE load_all(_, _, _)
load_all(docs, acc, util) ==
    IF docs = <<>> THEN Returned(acc)
    ELSE LET one == IF util THEN util_get_data_file(Head(docs))
                    ELSE get_data_file(Head(docs))
         IN  IF one.raised # "none" THEN Raised(one.raised)
             ELSE load_all(Tail(docs),
                           Update(acc, [k \in {one.value[K_id]} |-> one.value]),
                           util)

\* utils.py lines 20-34
get_data(docs) == load_all(docs, EmptyDict, FALSE)

\* util/util.py lines 17-29
util_get_data(docs) == load_all(docs, EmptyDict, TRUE)

\* s.removeprefix(p)
removeprefix(s, p) ==
    IF Len(s) >= Len(p) /\ SubSeq(s, 1, Len(p)) = p
    THEN SubSeq(s, Len(p) + 1, Len(s))
    ELSE s

\* s.rstrip("/")
RECURSIVE rstrip_slash(_)
rstrip_slash(s) ==
    IF s # <<>> /\ s[Len(s)] = 47 THEN rstrip_slash(SubSeq(s, 1, Len(s) - 1)) ELSE s

\* s.split("/")
RECURSIVE split_slash(_)
split_slash(s) ==
    IF Find(s, <<47>>) = 0 THEN <<s>>
    ELSE <<SubSeq(s, 1, Find(s, <<47>>) - 1)>>
         \o split_slash(SubSeq(s, Find(s, <<47>>) + 1, Len(s)))

\* utils.py line 41: data.get("repository") or ""
repository_of(data) ==
    IF Get(data, K_repository) = None THEN <<>> ELSE Get(data, K_repository)

\* utils.py line 42: "github" in repository
is_github(repository) == contains(repository, <<103,105,116,104,117,98>>)

\* utils.py lines 44-46: the parts that are unpacked into owner, repo
owner_repo(repository) ==
    split_slash(rstrip_slash(removeprefix(repository, <<104,116,116,112,115,58,47,47,103,105,116,104,117,98,46,99,111,109,47>>)))

\* utils.py lines 37-48
get_repositories(docs) ==
    LET data == get_data(docs)
        keys == IF data.raised = "none" THEN DOMAIN data.value ELSE {}
        kept == {k \in keys : is_github(repository_of(data.value[k]))}
    IN  IF data.raised # "none" THEN Raised(data.raised)
        ELSE IF \E k \in kept : Len(owner_repo(repository_of(data.value[k]))) # 2
        THEN Raised("ValueError")
        ELSE Returned([k \in kept |-> owner_repo(repository_of(data.value[k]))])

GetData ==
    /\ ontologies = NotCalled
    /\ ontologies' = get_data(documents)
    /\ UNCHANGED <<documents, util_ontologies, rv, diskVars, procVars, curationVars,
                   testVars, quickVars>>

UtilGetData ==
    /\ util_ontologies = NotCalled
    /\ util_ontologies' = util_get_data(documents)
    /\ UNCHANGED <<documents, ontologies, rv, diskVars, procVars, curationVars,
                   testVars, quickVars>>

GetRepositories ==
    /\ rv = NotCalled
    /\ rv' = get_repositories(documents)
    /\ UNCHANGED <<documents, ontologies, util_ontologies, diskVars, procVars,
                   curationVars, testVars, quickVars>>

\* the lines documents are made of: ---, id: a, id: b, t
LineValues == {Marker, <<105,100,58,32,97>>, <<105,100,58,32,98>>, <<116>>}

\* every document of at most MaxLines of these lines
AnyDocs == SeqsUpTo(LineValues, MaxLines)

\* two documents beside them: a record b with a description, and a line of text
SomeDocs == { <<Marker, <<105,100,58,32,98>>, Marker, <<116>>>>, <<<<116>>>> }

\* values of the repository field
RepositoryValues ==
    {
      <<104,116,116,112,115,58,47,47,103,105,116,104,117,98,46,99,111,109,47,111,47,114>>,
      <<104,116,116,112,115,58,47,47,103,105,116,104,117,98,46,99,111,109,47,111,47,114,47>>,
      <<104,116,116,112,115,58,47,47,103,105,116,104,117,98,46,99,111,109,47,111>>,
      <<104,116,116,112,115,58,47,47,103,105,116,104,117,98,46,99,111,109,47,111,47,114,47,120>>,
      <<104,116,116,112,58,47,47,103,105,116,104,117,98,46,99,111,109,47,111,47,114>>,
      <<104,116,116,112,115,58,47,47,103,105,116,108,97,98,46,99,111,109,47,111,47,114>>,
      <<104,116,116,112,115,58,47,47,103,105,116,104,117,98,46,99,111,109,47>>,
      <<103,105,116,104,117,98>>
    }
\* that is: https://github.com/o/r, https://github.com/o/r/, https://github.com/o, https://github.com/o/r/x, http://github.com/o/r, https://gitlab.com/o/r, https://github.com/, github

\* the document of a record: with a repository line, with an empty one, without
RecordDocs ==
    {<<Marker, <<105,100,58,32>> \o i, <<114,101,112,111,115,105,116,111,114,121,58,32>> \o u, Marker>> :
        i \in {<<97>>, <<98>>}, u \in RepositoryValues}
    \cup {<<Marker, <<105,100,58,32>> \o i, <<114,101,112,111,115,105,116,111,114,121,58>>, Marker>> : i \in {<<97>>, <<98>>}}
    \cup {<<Marker, <<105,100,58,32>> \o i, Marker>> : i \in {<<97>>, <<98>>}}

\* the stores tried: two documents, in the order the directory lists them
Stores ==
    {<<d, e>> : d \in AnyDocs, e \in SomeDocs}
    \cup {<<d, e>> : d \in SomeDocs, e \in AnyDocs}
    \cup {<<d, e>> : d \in RecordDocs, e \in RecordDocs}

InitStore ==
    /\ DiskEmpty
    /\ ProcIdle
    /\ CurationIdle
    /\ TestIdle
    /\ QuickIdle
    /\ documents \in Stores
    /\ ontologies = NotCalled
    /\ util_ontologies = NotCalled
    /\ rv = NotCalled

NextStore ==
    \/ GetData
    \/ UtilGetData
    \/ GetRepositories

SpecStore == InitStore /\ [][NextStore]_vars

---------------------------------------------------------------------------
(* Properties of get_data and get_repositories *)

\* a document that has both markers
WellFormed(lines) ==
    /\ lines # <<>>
    /\ lines[1] = Marker
    /\ \E i \in 2..Len(lines) : lines[i] = Marker

\* the exceptions a missing or misplaced marker raises
FormatErrors == {"IndexError", "AssertionError", "ValueError"}

\* what C6 says of a call of get_data that gave r on the store
FormatErrorIffMarkerMissing(r) ==
    r # NotCalled =>
       /\ (\E i \in 1..Len(documents) : ~WellFormed(documents[i]))
             => (r.raised # "none" /\ r.value = EmptyDict)
       /\ r.raised \in FormatErrors
             => \E i \in 1..Len(documents) : ~WellFormed(documents[i])

\* C6: both get_data fail on a document whose first line is not the marker, or
\* that has no later marker line, or that is empty, with one of the exceptions of
\* a missing marker, and on a document that has both markers with none of them; a
\* store that holds a document without both markers gives no mapping.
C6_FormatErrorIffMarkerMissing ==
    /\ \A i \in 1..Len(documents) :
          /\ get_data_file(documents[i]).raised \in FormatErrors
                <=> ~WellFormed(documents[i])
          /\ util_get_data_file(documents[i]).raised \in FormatErrors
                <=> ~WellFormed(documents[i])
    /\ FormatErrorIffMarkerMissing(ontologies)
    /\ FormatErrorIffMarkerMissing(util_ontologies)

\* C6 witness: both get_data were called on a store whose first document begins
\* with the marker, holds a line more and has no closing marker, and both raised
\* the exception of the search for the closing marker.
C6_Witness ==
    /\ documents[1] # <<>>
    /\ documents[1][1] = Marker
    /\ Len(documents[1]) > 1
    /\ ~WellFormed(documents[1])
    /\ ontologies = Raised("ValueError")
    /\ util_ontologies = Raised("ValueError")

\* C7: the record of a well-formed document holds the parse of the lines
\* strictly between the first line and the next marker line, and as its
\* long_description the concatenation of the lines after that marker line.
C7_LongDescriptionAfterMarker ==
    ontologies.raised = "none" =>
       \A id \in DOMAIN ontologies.value :
          \E i \in 1..Len(documents) :
             /\ WellFormed(documents[i])
             /\ LET lines == documents[i]
                    second == CHOOSE n \in 2..Len(lines) :
                                 /\ lines[n] = Marker
                                 /\ \A m \in 2..(n - 1) : lines[m] # Marker
                    block == yaml_safe_load(SubSeq(lines, 2, second - 1))
                    record == ontologies.value[id]
                IN  /\ block.kind = "dict"
                    /\ DOMAIN record = DOMAIN block.value \cup {K_long_description}
                    /\ \A k \in DOMAIN block.value : record[k] = block.value[k]
                    /\ record[K_long_description]
                         = concat(SubSeq(lines, second + 1, Len(lines)))

\* C8: on a store get_data reads, get_repositories does not fail, and gives the
\* owner and the repository of records of the store only.
C8_GetRepositoriesNeverFails ==
    (rv # NotCalled /\ get_data(documents).raised = "none") =>
       /\ rv.raised = "none"
       /\ DOMAIN rv.value \subseteq DOMAIN get_data(documents).value
       /\ \A k \in DOMAIN rv.value : Len(rv.value[k]) = 2

---------------------------------------------------------------------------
(* tests/test_integrity.py: assert_valid_publication_id *)

\* lines 26-32
PUBMED_PREFIX == <<104,116,116,112,115,58,47,47,119,119,119,46,110,99,98,105,46,110,108,109,46,110,105,104,46,103,111,118,47,112,117,98,109,101,100,47>>
ARXIV_PREFIX == <<104,116,116,112,115,58,47,47,97,114,120,105,118,46,111,114,103,47,97,98,115,47>>
BIORXIV_PREFIX == <<104,116,116,112,115,58,47,47,119,119,119,46,98,105,111,114,120,105,118,46,111,114,103,47,99,111,110,116,101,110,116,47>>
MEDRXIV_PREFIX == <<104,116,116,112,115,58,47,47,119,119,119,46,109,101,100,114,120,105,118,46,111,114,103,47,99,111,110,116,101,110,116,47>>
ZENODO_PREFIX == <<104,116,116,112,115,58,47,47,122,101,110,111,100,111,46,111,114,103,47,114,101,99,111,114,100,47>>
DOI_PREFIX == <<104,116,116,112,115,58,47,47,100,111,105,46,111,114,103,47>>
CHEMRXIV_DOI_PREFIX == <<104,116,116,112,115,58,47,47,100,111,105,46,111,114,103,47,49,48,46,50,54,52,51,52,47,99,104,101,109,114,120,105,118>>
\* that is: https://www.ncbi.nlm.nih.gov/pubmed/, https://arxiv.org/abs/,
\* https://www.biorxiv.org/content/, https://www.medrxiv.org/content/,
\* https://zenodo.org/record/, https://doi.org/, https://doi.org/10.26434/chemrxiv

\* s.startswith(p), s.endswith(p)
startswith(s, p) == Len(s) >= Len(p) /\ SubSeq(s, 1, Len(p)) = p
endswith(s, p) == Len(s) >= Len(p) /\ SubSeq(s, Len(s) - Len(p) + 1, Len(s)) = p

\* s.isnumeric() on ASCII: not empty, and digits only
isnumeric(s) == s # <<>> /\ \A i \in 1..Len(s) : s[i] \in 48..57

\* str(n) for 0 <= n < 100
str_int(n) == IF n < 10 THEN <<48 + n>> ELSE <<48 + (n \div 10), 48 + (n % 10)>>

\* a value that is a number and no string (YAML reads id: 12345 as one)
AnInt == <<-2>>

\* isinstance(x, str)
is_str(x) == x # None /\ x # AnInt

K_title == "title"
K_pub_id == "id"

\* a PubMed test that does not look at what follows the prefix
is_pubmed_any_rest(identifier) == startswith(identifier, PUBMED_PREFIX)

\* lines 225-228
is_pubmed(identifier) ==
    /\ startswith(identifier, PUBMED_PREFIX)
    /\ isnumeric(SubSeq(identifier, Len(PUBMED_PREFIX) + 1, Len(identifier)))

\* lines 229-232
is_zenodo(identifier) ==
    /\ startswith(identifier, ZENODO_PREFIX)
    /\ isnumeric(SubSeq(identifier, Len(ZENODO_PREFIX) + 1, Len(identifier)))

\* lines 239-251: any((is_pubmed, is_zenodo, is_doi, is_arxiv, is_biorxiv, is_medrxiv))
recognized_scheme(identifier) ==
    \/ is_pubmed(identifier)
    \/ is_zenodo(identifier)
    \/ startswith(identifier, DOI_PREFIX)
    \/ startswith(identifier, ARXIV_PREFIX)
    \/ startswith(identifier, BIORXIV_PREFIX)
    \/ startswith(identifier, MEDRXIV_PREFIX)

\* lines 254-259: the identifiers the version test is applied to
is_preprint(identifier) ==
    \/ startswith(identifier, ARXIV_PREFIX)
    \/ startswith(identifier, BIORXIV_PREFIX)
    \/ startswith(identifier, MEDRXIV_PREFIX)
    \/ startswith(identifier, CHEMRXIV_DOI_PREFIX)

\* lines 260-263: identifier.endswith(f".v{v}") for some v in range(1, 100)
ends_with_version(identifier) ==
    \E v \in 1..99 : endswith(identifier, <<46,118>> \o str_int(v))

\* lines 217-263: "ok", or the assertion that failed
assert_valid_publication_id(pub) ==
    IF K_title \notin DOMAIN pub THEN "no title"
    ELSE IF K_pub_id \notin DOMAIN pub THEN "no id"
    ELSE IF ~is_str(pub[K_pub_id]) THEN "id is no string"
    ELSE IF endswith(pub[K_pub_id], <<47>>) THEN "id ends with /"
    ELSE IF ~recognized_scheme(pub[K_pub_id]) THEN "unexpected identifier"
    ELSE IF is_preprint(pub[K_pub_id]) /\ ends_with_version(pub[K_pub_id])
    THEN "Please use an unversioned DOI"
    ELSE "ok"

\* the other variables of the tests, at rest
RegistryIdle ==
    /\ registry = <<>>
    /\ outcome = NotRun

\* a page that is no citation: https://example.com/
EXAMPLE_PREFIX == <<104,116,116,112,115,58,47,47,101,120,97,109,112,108,101,46,99,111,109,47>>

PubPrefixes ==
    {PUBMED_PREFIX, ARXIV_PREFIX, BIORXIV_PREFIX, MEDRXIV_PREFIX, ZENODO_PREFIX,
     DOI_PREFIX, CHEMRXIV_DOI_PREFIX, EXAMPLE_PREFIX}

\* what follows the prefix: nothing, 12345, 12a45, 1234.5678, 1234.5678v2,
\* 1234.5678.v2, 1234.5678.v100, paper, 12345/
PubRemainders ==
    { <<>>,
      <<49,50,51,52,53>>,
      <<49,50,97,52,53>>,
      <<49,50,51,52,46,53,54,55,56>>,
      <<49,50,51,52,46,53,54,55,56,118,50>>,
      <<49,50,51,52,46,53,54,55,56,46,118,50>>,
      <<49,50,51,52,46,53,54,55,56,46,118,49,48,48>>,
      <<112,97,112,101,114>>,
      <<49,50,51,52,53,47>> }

PubIds == {p \o r : p \in PubPrefixes, r \in PubRemainders} \cup {None, AnInt}

\* the publications tried: with and without a title, with and without an id
Publications ==
    {[title |-> "t", id |-> i] : i \in PubIds}
    \cup {[id |-> i] : i \in PubIds}
    \cup {[title |-> "t"]}

\* a call of assert_valid_publication_id(publication)
AssertValidPublicationId ==
    /\ verdict = "not called"
    /\ verdict' = assert_valid_publication_id(publication)
    /\ UNCHANGED <<publication, registry, outcome>>
    /\ UNCHANGED <<diskVars, procVars, curationVars, storeVars, quickVars>>

InitPublication ==
    /\ DiskEmpty
    /\ ProcIdle
    /\ CurationIdle
    /\ StoreIdle
    /\ QuickIdle
    /\ RegistryIdle
    /\ publication \in Publications
    /\ verdict = "not called"

NextPublication == AssertValidPublicationId

SpecPublication == InitPublication /\ [][NextPublication]_vars

---------------------------------------------------------------------------
(* Properties of assert_valid_publication_id *)

ARXIV_VERSIONED == ARXIV_PREFIX \o <<49,50,51,52,46,53,54,55,56,118,50>>
ARXIV_UNVERSIONED == ARXIV_PREFIX \o <<49,50,51,52,46,53,54,55,56>>
PUBMED_12345 == PUBMED_PREFIX \o <<49,50,51,52,53>>
EXAMPLE_PAPER == EXAMPLE_PREFIX \o <<112,97,112,101,114>>

HasId(pub) == K_pub_id \in DOMAIN pub /\ is_str(pub[K_pub_id])

\* s ends with v and one or more digits
HasVersionSuffix(s) ==
    \E k \in 1..(Len(s) - 1) :
       /\ s[k] = 118
       /\ \A i \in (k + 1)..Len(s) : s[i] \in 48..57

\* s is prefix p followed by one or more digits and nothing else
NumericUnder(s, p) ==
    /\ Len(s) > Len(p)
    /\ \A i \in 1..Len(p) : s[i] = p[i]
    /\ \A i \in (Len(p) + 1)..Len(s) : s[i] \in 48..57

Under(s, p) == Len(s) >= Len(p) /\ \A i \in 1..Len(p) : s[i] = p[i]

\* C12: an identifier under the arXiv, bioRxiv, medRxiv or chemRxiv-DOI prefix
\* that ends with a version suffix is rejected, https://arxiv.org/abs/1234.5678v2
\* among them, and https://arxiv.org/abs/1234.5678 with a title is accepted.
C12_VersionedPreprintRejected ==
    (verdict # "not called" /\ HasId(publication)) =>
       /\ ( /\ \E p \in {ARXIV_PREFIX, BIORXIV_PREFIX, MEDRXIV_PREFIX, CHEMRXIV_DOI_PREFIX} :
                  Under(publication[K_pub_id], p)
            /\ HasVersionSuffix(publication[K_pub_id]) )
          => verdict # "ok"
       /\ publication[K_pub_id] = ARXIV_VERSIONED => verdict # "ok"
       /\ (publication[K_pub_id] = ARXIV_UNVERSIONED /\ K_title \in DOMAIN publication)
          => verdict = "ok"

\* C13: an accepted publication has a title and an id that is a string, does not
\* end with / and is the PubMed or Zenodo prefix followed by digits only, or
\* begins with the DOI, arXiv, bioRxiv or medRxiv prefix; so
\* https://example.com/paper and a PubMed URL whose rest is not numeric are
\* rejected; https://www.ncbi.nlm.nih.gov/pubmed/12345 with a title is accepted.
C13_AcceptedOnlyIfRecognized ==
    /\ verdict = "ok" =>
          /\ K_title \in DOMAIN publication
          /\ HasId(publication)
          /\ publication[K_pub_id] # <<>>
          /\ publication[K_pub_id][Len(publication[K_pub_id])] # 47
          /\ \/ NumericUnder(publication[K_pub_id], PUBMED_PREFIX)
             \/ NumericUnder(publication[K_pub_id], ZENODO_PREFIX)
             \/ \E p \in {DOI_PREFIX, ARXIV_PREFIX, BIORXIV_PREFIX, MEDRXIV_PREFIX} :
                   Under(publication[K_pub_id], p)
    /\ (verdict # "not called" /\ HasId(publication)) =>
          /\ publication[K_pub_id] = EXAMPLE_PAPER => verdict # "ok"
          /\ (publication[K_pub_id] = PUBMED_12345 /\ K_title \in DOMAIN publication)
             => verdict = "ok"

\* C13 witness: the PubMed URL of 12345 was accepted.
C13_Witness ==
    /\ verdict = "ok"
    /\ publication = [title |-> "t", id |-> PUBMED_12345]

---------------------------------------------------------------------------
(* tests/test_integrity.py: the test methods over self.ontologies *)

\* longest dependencies list of a record
MaxDeps == 2
\* longest publications list of a record
MaxPubs == 2

\* what one pass of a test method's loop body gave for one record: did it
\* report a failure or an error for the record, and did an exception leave the
\* loop (one raised outside of a subTest block ends the test method)
\* (error: the exception was no AssertionError)
Pass == [failed |-> FALSE, aborted |-> FALSE, error |-> FALSE, messages |-> {}]
FailInSubTest(msgs) == [failed |-> TRUE, aborted |-> FALSE, error |-> FALSE, messages |-> msgs]
ErrorInSubTest == [failed |-> TRUE, aborted |-> FALSE, error |-> TRUE, messages |-> {}]
FailOutsideSubTest == [failed |-> TRUE, aborted |-> TRUE, error |-> FALSE, messages |-> {}]
ErrorOutsideSubTest == [failed |-> TRUE, aborted |-> TRUE, error |-> TRUE, messages |-> {}]

\* a test method's loop over the items in the order q: the bodies run up to the
\* first one that leaves the loop
run_loop(name, q, results) ==
    LET stops == {i \in 1..Len(q) : results[i].aborted}
        last == IF stops = {} THEN Len(q) ELSE CHOOSE i \in stops : \A j \in stops : i <= j
    IN  [test |-> name,
         evaluated |-> {q[i].id : i \in 1..last},
         reported |-> {q[i].id : i \in {j \in 1..last : results[j].failed}},
         messages |-> UNION {results[i].messages : i \in 1..last},
         aborted |-> stops # {}]

\* sorted(q) for a list of strings: insertion sort
RECURSIVE insert_sorted(_, _)
insert_sorted(x, q) ==
    IF q = <<>> THEN <<x>>
    ELSE IF StrLess(Head(q), x) \/ Head(q) = x THEN <<Head(q)>> \o insert_sorted(x, Tail(q))
    ELSE <<x>> \o q

RECURSIVE sorted_list(_)
sorted_list(q) == IF q = <<>> THEN <<>> ELSE insert_sorted(Head(q), sorted_list(Tail(q)))

\* set(self.ontologies)
registry_ids(reg) == {reg[i].id : i \in 1..Len(reg)}

\* line 150
dependency_ids_of(dependencies) == [i \in 1..Len(dependencies) |-> dependencies[i].id]

\* lines 151-155: sorted(dependency_ids) == dependency_ids
dependencies_sorted(dependency_ids) == sorted_list(dependency_ids) = dependency_ids

\* a test that does not look for duplicates
dependencies_unique_skipped(dependency_ids) == TRUE

\* lines 156-160: sorted(set(dependency_ids)) == dependency_ids
dependencies_unique(dependency_ids) ==
    sorted({dependency_ids[i] : i \in 1..Len(dependency_ids)}) = dependency_ids

\* line 166
is_bridge(dependency) == "type" \in DOMAIN dependency /\ dependency.type = "BridgeOntology"

\* lines 164-174: does the assertion on one dependency hold
dependency_ok(ontology, dependency, ids) ==
    IF is_bridge(dependency)
    THEN startswith(dependency.id, ontology \o <<47>>)
    ELSE dependency.id \in ids

\* line 173: f"Ontology {ontology} has invalid dependency at index {i}: {dependency_id}"
invalid_dependency_msg(ontology, i, dependency_id) ==
    <<79,110,116,111,108,111,103,121,32>> \o ontology
    \o <<32,104,97,115,32,105,110,118,97,108,105,100,32,100,101,112,101,110,100,101,110,99,121,32,97,116,32,105,110,100,101,120,32>> \o str_int(i)
    \o <<58,32>> \o dependency_id

MSG_SORTED == <<100,101,112,101,110,100,101,110,99,105,101,115,32,115,104,111,117,108,100,32,98,101,32,115,111,114,116,101,100,32,98,121,32,73,68>>
MSG_UNIQUE == <<100,101,112,101,110,100,101,110,99,105,101,115,32,115,104,111,117,108,100,32,98,101,32,117,110,105,113,117,101>>
MSG_BRIDGE == <<70,97,108,115,101,32,105,115,32,110,111,116,32,116,114,117,101>>
\* that is: dependencies should be sorted by ID, dependencies should be unique,
\* False is not true

\* lines 146-174: the body of the loop for one record; the first assertion that
\* fails ends the record's subTest block
check_dependencies(ontology, data, ids) ==
    IF "dependencies" \notin DOMAIN data THEN Pass
    ELSE IF data.dependencies = <<>> THEN Pass
    ELSE LET dependencies == data.dependencies
             dependency_ids == dependency_ids_of(dependencies)
             bad == {i \in 1..Len(dependencies) : ~dependency_ok(ontology, dependencies[i], ids)}
             first == CHOOSE i \in bad : \A j \in bad : i <= j
         IN  IF ~dependencies_sorted(dependency_ids) THEN FailInSubTest({MSG_SORTED})
             ELSE IF ~dependencies_unique(dependency_ids) THEN FailInSubTest({MSG_UNIQUE})
             ELSE IF bad = {} THEN Pass
             ELSE IF is_bridge(dependencies[first]) THEN FailInSubTest({MSG_BRIDGE})
             ELSE FailInSubTest({invalid_dependency_msg(ontology, first - 1,
                                                        dependencies[first].id)})

\* lines 143-174
test_dependencies(reg) ==
    run_loop("test_dependencies", reg,
             [i \in 1..Len(reg) |-> check_dependencies(reg[i].id, reg[i].data, registry_ids(reg))])

\* sorted(self.ontologies.items()): the items by ascending key
sorted_items(reg) ==
    LET keys == sorted(registry_ids(reg))
    IN  [i \in 1..Len(keys) |-> reg[CHOOSE j \in 1..Len(reg) : reg[j].id = keys[i]]]

\* data.get("publications", []), data.get("usages", []), usage.get("publications", [])
publications_of(data) == IF "publications" \in DOMAIN data THEN data.publications ELSE <<>>
usages_of(data) == IF "usages" \in DOMAIN data THEN data.usages ELSE <<>>

\* lines 180-183: sum(publication.get("preferred", False) for publication in ...)
preferred_count(pubs) ==
    Cardinality({i \in 1..Len(pubs) : "preferred" \in DOMAIN pubs[i] /\ pubs[i].preferred})

AGRO == <<97,103,114,111>>
CEUR_PREFIX == <<104,116,116,112,58,47,47,99,101,117,114,45,119,115,46,111,114,103,47>>
\* that is: agro, http://ceur-ws.org/

\* line 190: the one publication that is not looked at
grandfathered(ontology, identifier) ==
    ontology = AGRO /\ is_str(identifier) /\ startswith(identifier, CEUR_PREFIX)

\* lines 179-215: the body of the loop for one record. The count of preferred
\* publications (179-186), publication["id"] (189) and the usage's user (204-208)
\* are outside of the subTest blocks.
check_publications(ontology, data) ==
    LET pubs == publications_of(data)
        usages == usages_of(data)
        bad_pubs == {i \in 1..Len(pubs) :
                        /\ ~grandfathered(ontology, pubs[i][K_pub_id])
                        /\ assert_valid_publication_id(pubs[i]) # "ok"}
        cited == {i \in 1..Len(usages) : publications_of(usages[i]) # <<>>}
        no_user == {i \in cited : "user" \notin DOMAIN usages[i]}
        upto == IF no_user = {} THEN Len(usages) + 1
                ELSE CHOOSE i \in no_user : \A j \in no_user : i <= j
        bad_usages == {i \in cited :
                          /\ i < upto
                          /\ \E j \in 1..Len(publications_of(usages[i])) :
                                assert_valid_publication_id(publications_of(usages[i])[j]) # "ok"}
    IN  IF preferred_count(pubs) \notin {0, 1} THEN FailOutsideSubTest
        ELSE IF \E i \in 1..Len(pubs) : K_pub_id \notin DOMAIN pubs[i] THEN ErrorOutsideSubTest
        ELSE IF no_user # {} THEN FailOutsideSubTest
        ELSE IF bad_pubs # {} \/ bad_usages # {} THEN FailInSubTest({})
        ELSE Pass

\* lines 176-215
test_publications(reg) ==
    LET q == sorted_items(reg)
    IN  run_loop("test_publications", q,
                 [i \in 1..Len(q) |-> check_publications(q[i].id, q[i].data)])

\* lines 279-282
skip_inactive(record) ==
    ~("activity_status" \in DOMAIN record /\ record.activity_status = "active")

DPO == <<100,112,111>>

\* str.casefold() on ASCII
casefold(s) == lower(s)

\* lines 287-295: the body of the loop, all of it in the subTest block
check_preferred_prefix(key, record) ==
    IF skip_inactive(record) THEN Pass
    ELSE IF "preferredPrefix" \notin DOMAIN record THEN FailInSubTest({})
    ELSE IF record.preferredPrefix = None THEN FailInSubTest({})
    ELSE IF ~(2 <= Len(record.preferredPrefix)) THEN FailInSubTest({})
    ELSE IF contains(record.preferredPrefix, <<32>>) THEN FailInSubTest({})
    ELSE IF key # DPO /\ casefold(record.preferredPrefix) # casefold(key)
    THEN FailInSubTest({})
    ELSE Pass

\* lines 284-295
test_preferred_prefix(reg) ==
    run_loop("test_preferred_prefix", reg,
             [i \in 1..Len(reg) |-> check_preferred_prefix(reg[i].id, reg[i].data)])

\* the characters str.strip() removes
Whitespace == {9, 10, 11, 12, 13, 28, 29, 30, 31, 32}

\* s.strip()
RECURSIVE strip(_)
strip(s) ==
    IF s = <<>> THEN s
    ELSE IF s[1] \in Whitespace THEN strip(Tail(s))
    ELSE IF s[Len(s)] \in Whitespace THEN strip(SubSeq(s, 1, Len(s) - 1))
    ELSE s

\* lines 375-383: the newline, the space, the full stop and the hyphen are removed
string_norm(s) == SelectSeq(lower(strip(s)), LAMBDA c : c \notin {10, 32, 46, 45})

\* lines 300-311: the body of the loop
check_redundant_descriptions(key, record) ==
    IF skip_inactive(record) THEN Pass
    ELSE IF "long_description" \notin DOMAIN record THEN ErrorOutsideSubTest
    ELSE IF "description" \notin DOMAIN record THEN Pass
    ELSE IF record.description = None THEN Pass
    ELSE IF string_norm(record.description) = string_norm(record.long_description)
    THEN FailInSubTest({})
    ELSE Pass

\* lines 297-311
test_redundant_descriptions(reg) ==
    run_loop("test_redundant_descriptions", reg,
             [i \in 1..Len(reg) |-> check_redundant_descriptions(reg[i].id, reg[i].data)])

\* lines 33-42
ALLOWED_SPDX == {"CC0-1.0", "CC-BY-3.0", "CC-BY-4.0"}
OBO_TO_SPDX == [l \in {"CC BY 4.0", "CC BY 3.0", "CC0"} |->
                  CASE l = "CC BY 4.0" -> "CC-BY-4.0"
                    [] l = "CC BY 3.0" -> "CC-BY-3.0"
                    [] OTHER -> "CC0-1.0"]

\* https://github.com
GITHUB_URL == <<104,116,116,112,115,58,47,47,103,105,116,104,117,98,46,99,111,109>>

\* JSON null as a license object; as a string value it is written "null"
JNull == [null |-> TRUE]

\* lines 435-445, for an item of self.ontologies whose repository is on GitHub:
\* the answer of api.github.com/repos/{r}, and raise_for_status()
get_github_data(item) ==
    IF item.github.status = "ok" THEN Returned(item.github.json) ELSE Raised("HTTPError")

\* lines 450-481: the body of the loop; data["repository"] is outside of the
\* subTest block, the rest is in it
check_repository_license(item) ==
    IF "repository" \notin DOMAIN item.data THEN ErrorOutsideSubTest
    ELSE IF ~startswith(item.data.repository, GITHUB_URL) THEN Pass
    ELSE IF get_github_data(item).raised # "none" THEN ErrorInSubTest
    ELSE LET github_data == get_github_data(item).value
         IN  IF "license" \notin DOMAIN github_data THEN FailInSubTest({})
             ELSE IF github_data.license = JNull THEN ErrorInSubTest
             ELSE IF "spdx_id" \notin DOMAIN github_data.license THEN FailInSubTest({})
             ELSE IF github_data.license.spdx_id = "null" THEN FailInSubTest({})
             ELSE IF github_data.license.spdx_id = "NOASSERTION" THEN FailInSubTest({})
             ELSE IF github_data.license.spdx_id \notin ALLOWED_SPDX THEN FailInSubTest({})
             ELSE IF "license" \notin DOMAIN item.data THEN ErrorInSubTest
             ELSE IF "label" \notin DOMAIN item.data.license THEN ErrorInSubTest
             ELSE IF item.data.license.label \notin DOMAIN OBO_TO_SPDX THEN ErrorInSubTest
             ELSE IF github_data.license.spdx_id # OBO_TO_SPDX[item.data.license.label]
             THEN FailInSubTest({})
             ELSE Pass

\* lines 447-481
test_repository_license(reg) ==
    run_loop("test_repository_license", reg,
             [i \in 1..Len(reg) |-> check_repository_license(reg[i])])

\* lines 524-533: the conventional places of the document
CONTRIBUTING_PATHS ==
    {"CONTRIBUTING.md", "docs/CONTRIBUTING.md", ".github/CONTRIBUTING.md",
     "CONTRIBUTING.rst", "docs/CONTRIBUTING.rst", ".github/CONTRIBUTING.rst"}

\* lines 518-539: the body of the loop; there is no subTest block
check_contribution_guidelines(item) ==
    IF "repository" \notin DOMAIN item.data THEN ErrorOutsideSubTest
    ELSE IF ~startswith(item.data.repository, GITHUB_URL) THEN Pass
    ELSE IF get_github_data(item).raised # "none" THEN ErrorOutsideSubTest
    ELSE IF "default_branch" \notin DOMAIN get_github_data(item).value THEN ErrorOutsideSubTest
    ELSE IF ~(\E path \in CONTRIBUTING_PATHS : path \in item.guidelines) THEN FailOutsideSubTest
    ELSE Pass

\* lines 515-539
test_contribution_guidelines(reg) ==
    run_loop("test_contribution_guidelines", reg,
             [i \in 1..Len(reg) |-> check_contribution_guidelines(reg[i])])

\* a test method runs on self.ontologies
TestDependencies ==
    /\ outcome = NotRun
    /\ outcome' = test_dependencies(registry)
    /\ UNCHANGED <<registry, publication, verdict>>
    /\ UNCHANGED <<diskVars, procVars, curationVars, storeVars, quickVars>>

TestPublications ==
    /\ outcome = NotRun
    /\ outcome' = test_publications(registry)
    /\ UNCHANGED <<registry, publication, verdict>>
    /\ UNCHANGED <<diskVars, procVars, curationVars, storeVars, quickVars>>

TestPreferredPrefix ==
    /\ outcome = NotRun
    /\ outcome' = test_preferred_prefix(registry)
    /\ UNCHANGED <<registry, publication, verdict>>
    /\ UNCHANGED <<diskVars, procVars, curationVars, storeVars, quickVars>>

TestRedundantDescriptions ==
    /\ outcome = NotRun
    /\ outcome' = test_redundant_descriptions(registry)
    /\ UNCHANGED <<registry, publication, verdict>>
    /\ UNCHANGED <<diskVars, procVars, curationVars, storeVars, quickVars>>

TestRepositoryLicense ==
    /\ outcome = NotRun
    /\ outcome' = test_repository_license(registry)
    /\ UNCHANGED <<registry, publication, verdict>>
    /\ UNCHANGED <<diskVars, procVars, curationVars, storeVars, quickVars>>

TestContributionGuidelines ==
    /\ outcome = NotRun
    /\ outcome' = test_contribution_guidelines(registry)
    /\ UNCHANGED <<registry, publication, verdict>>
    /\ UNCHANGED <<diskVars, procVars, curationVars, storeVars, quickVars>>

---------------------------------------------------------------------------
(* The registries the test methods are run on *)

ABC == <<97,98,99>>
XYZ == <<120,121,122>>
MISSING == <<109,105,115,115,105,110,103>>
\* that is: abc, xyz, missing

With(data, key, value) ==
    [k \in DOMAIN data \cup {key} |-> IF k = key THEN value ELSE data[k]]
Without(data, key) == [k \in DOMAIN data \ {key} |-> data[k]]

\* https://github.com/o/r, https://gitlab.com/o/r
GH_REPO == <<104,116,116,112,115,58,47,47,103,105,116,104,117,98,46,99,111,109,47,111,47,114>>
GL_REPO == <<104,116,116,112,115,58,47,47,103,105,116,108,97,98,46,99,111,109,47,111,47,114>>

\* a record every test method passes
BaseData(id) ==
    [activity_status |-> "active", preferredPrefix |-> id, long_description |-> <<>>,
     repository |-> GH_REPO, license |-> [label |-> "CC0"]]

\* what api.github.com answers for a repository with a CC0 licence
GoodGithub ==
    [status |-> "ok", json |-> [license |-> [spdx_id |-> "CC0-1.0"], default_branch |-> "main"]]

Item(id, data, github, guidelines) ==
    [id |-> id, data |-> data, github |-> github, guidelines |-> guidelines]

BaseItem(id, data) == Item(id, data, GoodGithub, {"CONTRIBUTING.md"})

\* the two orders a dict of the two records can iterate in
BothOrders(A, X) == {<<a, x>> : a \in A, x \in X} \cup {<<x, a>> : a \in A, x \in X}

\* dependencies: on abc, xyz, missing, xyz/b, abc/b, with and without the type
DepIds == {ABC, XYZ, MISSING, XYZ \o <<47,98>>, ABC \o <<47,98>>}
Dependencies ==
    {[id |-> i] : i \in DepIds} \cup {[id |-> i, type |-> "BridgeOntology"] : i \in DepIds}

DepRegistries ==
    BothOrders(
      {BaseItem(ABC, BaseData(ABC))}
        \cup {BaseItem(ABC, With(BaseData(ABC), "dependencies", d)) :
                d \in {<<>>, <<[id |-> MISSING]>>}},
      {BaseItem(XYZ, With(BaseData(XYZ), "dependencies", d)) :
                d \in SeqsUpTo(Dependencies, MaxDeps)})

\* publications: a PubMed one and a page that is none, preferred or not
RegPubs ==
    {[title |-> "t", id |-> i] : i \in {PUBMED_12345, EXAMPLE_PAPER}}
    \cup {[title |-> "t", id |-> i, preferred |-> TRUE] : i \in {PUBMED_12345, EXAMPLE_PAPER}}

\* usages: with and without a user, citing nothing, one of the two, or without
\* the list
Usages ==
    {[user |-> "u", publications |-> l] : l \in SeqsUpTo({[title |-> "t", id |-> i] : i \in {PUBMED_12345, EXAMPLE_PAPER}}, 1)}
    \cup {[publications |-> l] : l \in SeqsUpTo({[title |-> "t", id |-> i] : i \in {PUBMED_12345, EXAMPLE_PAPER}}, 1)}
    \cup {[user |-> "u"]}

PubData(id) ==
    {With(BaseData(id), "publications", l) : l \in SeqsUpTo(RegPubs, MaxPubs)}
    \cup {With(BaseData(id), "usages", <<u>>) : u \in Usages}

PubRegistries ==
    BothOrders({BaseItem(ABC, d) : d \in PubData(ABC)}, {BaseItem(XYZ, d) : d \in PubData(XYZ)})

\* preferred prefixes: ABC, XYZ, a, ab c, or none; active, inactive, or no status
PreferredPrefixes == {<<65,66,67>>, <<88,89,90>>, <<97>>, <<97,98,32,99>>}

PrefixData(id) ==
    LET with_prefix == {With(BaseData(id), "preferredPrefix", p) : p \in PreferredPrefixes}
                       \cup {Without(BaseData(id), "preferredPrefix")}
    IN  with_prefix
        \cup {With(d, "activity_status", "inactive") : d \in with_prefix}
        \cup {Without(d, "activity_status") : d \in with_prefix}

PrefixRegistries ==
    BothOrders({BaseItem(ABC, d) : d \in PrefixData(ABC)}, {BaseItem(XYZ, d) : d \in PrefixData(XYZ)})

\* descriptions: none, "A b." or "x", beside the long description "a-b\n" or "x y"
DescData(id) ==
    LET long == {With(BaseData(id), "long_description", l) :
                    l \in {<<97,45,98,10>>, <<120,32,121>>}}
        both == long \cup {With(d, "description", s) :
                              d \in long, s \in {<<65,32,98,46>>, <<120>>}}
    IN  both \cup {With(d, "activity_status", "inactive") : d \in both}

DescRegistries ==
    BothOrders({BaseItem(ABC, d) : d \in DescData(ABC)}, {BaseItem(XYZ, d) : d \in DescData(XYZ)})

\* the answers of api.github.com: a failure, or the repository's object with
\* its license absent, null, without spdx_id, or with one
GithubAnswers ==
    {[status |-> "fail", json |-> EmptyDict]}
    \cup {[status |-> "ok", json |-> [default_branch |-> "main"]]}
    \cup {[status |-> "ok", json |-> [license |-> l, default_branch |-> "main"]] :
            l \in {JNull, [key |-> "other"]}
                  \cup {[spdx_id |-> x] :
                          x \in {"CC0-1.0", "CC-BY-4.0", "NOASSERTION", "null", "MIT"}}}

ModernItems(id) ==
    {Item(id, With(BaseData(id), "repository", GL_REPO), GoodGithub, {})}
    \cup {Item(id, With(BaseData(id), "license", [label |-> l]), g, c) :
            l \in {"CC0", "other"}, g \in GithubAnswers,
            c \in {{}, {"CONTRIBUTING.md"}, {".github/CONTRIBUTING.rst"}}}

ModernRegistries == BothOrders(ModernItems(ABC), ModernItems(XYZ))

Registries ==
    DepRegistries \cup PubRegistries \cup PrefixRegistries \cup DescRegistries
    \cup ModernRegistries

InitIntegrity ==
    /\ DiskEmpty
    /\ ProcIdle
    /\ CurationIdle
    /\ StoreIdle
    /\ QuickIdle
    /\ registry \in Registries
    /\ outcome = NotRun
    /\ publication = EmptyDict
    /\ verdict = "not called"

NextIntegrity ==
    \/ TestDependencies
    \/ TestPublications
    \/ TestPreferredPrefix
    \/ TestRedundantDescriptions
    \/ TestRepositoryLicense
    \/ TestContributionGuidelines

SpecIntegrity == InitIntegrity /\ [][NextIntegrity]_vars

---------------------------------------------------------------------------
(* Properties of the test methods *)

\* what the loop body of the test method gives for one record of the registry
CheckOf(test, item, reg) ==
    CASE test = "test_dependencies" -> check_dependencies(item.id, item.data, registry_ids(reg))
      [] test = "test_publications" -> check_publications(item.id, item.data)
      [] test = "test_preferred_prefix" -> check_preferred_prefix(item.id, item.data)
      [] test = "test_redundant_descriptions" -> check_redundant_descriptions(item.id, item.data)
      [] test = "test_repository_license" -> check_repository_license(item)
      [] OTHER -> check_contribution_guidelines(item)

\* C11: when the only failures are assertion failures, a test method evaluates
\* its check on every record of the registry and reports every record that
\* fails it, whatever the other records do.
C11_ChecksIndependent ==
    ( /\ outcome.test # "none"
      /\ \A i \in 1..Len(registry) : ~CheckOf(outcome.test, registry[i], registry).error )
    => /\ outcome.evaluated = registry_ids(registry)
       /\ outcome.reported =
            {registry[i].id : i \in {j \in 1..Len(registry) :
                                       CheckOf(outcome.test, registry[j], registry).failed}}

\* the list of ids ascends strictly: it is sorted and has no duplicate
SortedNoDuplicate(ids) == \A i, j \in 1..Len(ids) : i < j => StrLess(ids[i], ids[j])

HasDependencies(item) ==
    "dependencies" \in DOMAIN item.data /\ item.data.dependencies # <<>>

\* the example of the spec: abc has no dependencies, xyz depends on d
ExampleStore(d) ==
    /\ \E i \in 1..Len(registry) : registry[i].id = ABC /\ ~HasDependencies(registry[i])
    /\ \E i \in 1..Len(registry) :
          registry[i].id = XYZ /\ registry[i].data = With(BaseData(XYZ), "dependencies", <<[id |-> d]>>)

ExampleClauses ==
    /\ ExampleStore(ABC) => outcome.reported = {}
    /\ ExampleStore(MISSING) =>
          /\ XYZ \in outcome.reported
          /\ \E m \in outcome.messages : contains(m, XYZ) /\ contains(m, MISSING)

\* C14 as stated: test_dependencies passes for a record with dependencies
\* exactly when the ids ascend without duplicate and every dependency's id is a
\* record of the registry or, for a BridgeOntology, begins with the record's id
\* and /.
C14_DependenciesValid ==
    outcome.test = "test_dependencies" =>
       /\ \A i \in 1..Len(registry) :
             HasDependencies(registry[i]) =>
                ( registry[i].id \notin outcome.reported
                  <=> /\ SortedNoDuplicate(dependency_ids_of(registry[i].data.dependencies))
                      /\ \A k \in 1..Len(registry[i].data.dependencies) :
                            LET d == registry[i].data.dependencies[k]
                            IN  \/ d.id \in registry_ids(registry)
                                \/ /\ "type" \in DOMAIN d
                                   /\ d.type = "BridgeOntology"
                                   /\ Under(d.id, registry[i].id \o <<47>>) )
       /\ ExampleClauses

\* C14 amended: ... and every dependency that is no BridgeOntology has the id of
\* a record of the registry, and every BridgeOntology dependency has an id that
\* begins with the record's id and /.
C14_DependenciesValidByType ==
    outcome.test = "test_dependencies" =>
       /\ \A i \in 1..Len(registry) :
             HasDependencies(registry[i]) =>
                ( registry[i].id \notin outcome.reported
                  <=> /\ SortedNoDuplicate(dependency_ids_of(registry[i].data.dependencies))
                      /\ \A k \in 1..Len(registry[i].data.dependencies) :
                            LET d == registry[i].data.dependencies[k]
                            IN  IF "type" \in DOMAIN d /\ d.type = "BridgeOntology"
                                THEN Under(d.id, registry[i].id \o <<47>>)
                                ELSE d.id \in registry_ids(registry) )
       /\ ExampleClauses

\* C14 witness: test_dependencies ran on abc without dependencies and xyz that
\* depends on abc and on its own bridge xyz/b, and reported nothing.
C14_Witness ==
    /\ outcome.test = "test_dependencies"
    /\ \E i \in 1..Len(registry) :
          /\ registry[i].id = XYZ
          /\ HasDependencies(registry[i])
          /\ registry[i].data.dependencies =
               <<[id |-> ABC], [id |-> XYZ \o <<47,98>>, type |-> "BridgeOntology"]>>
    /\ outcome.reported = {}
    /\ outcome.evaluated = {ABC, XYZ}

---------------------------------------------------------------------------
(* More properties of get_contributors *)

\* get_contributors returned (main goes on to the graph queries)
HasReturned == pc \in {"returned", "queried1", "queried2", "done"}

\* C15: in what get_contributors returns, every contributor has a non-empty
\* prefixes field, and it holds a record's identifier exactly when the
\* contributor is a key of that record's mapping (the content of the record's
\* file); the result holds the contributors of the records' mappings and no
\* others.
C15_PrefixesInvertMappings ==
    HasReturned =>
       /\ \A p \in Repositories : recFiles[p].kind = "json"
       /\ DOMAIN authors = UNION {DOMAIN recFiles[p].data : p \in Repositories}
       /\ \A c \in DOMAIN authors :
             /\ "prefixes" \in DOMAIN authors[c]
             /\ authors[c].prefixes # {}
             /\ \A p \in Repositories :
                   p \in authors[c].prefixes <=> c \in DOMAIN recFiles[p].data

\* C15 witness: get_contributors returned, contributor a is in the mappings of
\* both records and has both identifiers.
C15_Witness ==
    /\ pc = "returned"
    /\ <<97>> \in DOMAIN authors
    /\ authors[<<97>>].prefixes = {<<97>>, <<98>>}
    /\ <<97>> \in DOMAIN recFiles[<<97>>].data
    /\ <<97>> \in DOMAIN recFiles[<<98>>].data

\* C16: the records are gone through in ascending order of identifier: what is
\* left to do ascends and lies above the record at hand; a request is sent and a
\* record's file is created only when every record below has its file; so the
\* records that have a file are an initial part of the sorted identifiers.
C16_AscendingOrder ==
    [][ /\ \A i, j \in 1..Len(todo') : i < j => StrLess(todo'[i], todo'[j])
        /\ (pc' \in Running /\ prefix' # <<>>) =>
              \A i \in 1..Len(todo') : StrLess(prefix', todo'[i])
        /\ CodeHostingRequest(req') =>
              \A p \in Repositories : StrLess(p, prefix') => recFiles'[p].kind # "absent"
        /\ \A q \in Repositories :
              recFiles'[q] # recFiles[q] =>
                 /\ q = prefix
                 /\ \A p \in Repositories : StrLess(p, q) => recFiles[p].kind # "absent"
        /\ \A p, q \in Repositories :
              (StrLess(p, q) /\ recFiles'[q].kind # "absent") => recFiles'[p].kind # "absent"
      ]_vars

\* C16 witness: in the first run, both records had no file; the file of a is
\* written and the contributors of b are about to be written.
C16_Witness ==
    /\ run = 1
    /\ pc = "write"
    /\ prefix = <<98>>
    /\ prefix_contributors # EmptyDict
    /\ recFiles[<<97>>].kind = "json"
    /\ recFiles[<<98>>].kind = "absent"

\* C17: a cache file that exists is left as it is by every step of every run;
\* and a file that exists is a hit whatever it holds: no request follows for the
\* record or the user.
C17_CacheFilesNeverChange ==
    [][ /\ \A n \in DOMAIN userFiles :
              userFiles[n].kind # "absent" => userFiles'[n] = userFiles[n]
        /\ \A p \in DOMAIN recFiles :
              recFiles[p].kind # "absent" => recFiles'[p] = recFiles[p]
        /\ (pc = "loop" /\ ProcessStep /\ todo # <<>> /\ recFiles[Head(todo)].kind # "absent")
              => pc' # "fetch"
        /\ ( /\ pc = "users"
             /\ ProcessStep
             /\ res_json.t = "list"
             /\ res_json.v # <<>>
             /\ userFiles[lower(Head(res_json.v).login)].kind # "absent" )
              => pc' # "user_fetch"
      ]_vars

\* C17 witness: a second run met the file an interrupted write of the first run
\* left for user a, took it as a hit and failed to parse it; the file is as it
\* was.
C17_Witness ==
    /\ run = 2
    /\ err = "JSONDecodeError"
    /\ userFiles[<<97>>].kind = "torn"
    /\ login \in {<<97>>, <<65>>}

\* C20: every record's file that exists holds the record's mapping, and every
\* contributor of it has a user file.
C20_NoPartialSnapshot ==
    \A p \in Repositories :
       recFiles[p].kind # "absent" =>
          /\ recFiles[p].kind = "json"
          /\ \A c \in DOMAIN recFiles[p].data : userFiles[lower(c)].kind # "absent"

---------------------------------------------------------------------------
(* More properties of get_curation_sparql *)

\* the strings of S from the least up, by the number of lesser ones
AscendingStrings(S) ==
    [i \in 1..Cardinality(S) |->
        CHOOSE x \in S : Cardinality({y \in S : StrLess(y, x)}) = i - 1]

\* the triples of S from the least up
AscendingTuples(S) ==
    [i \in 1..Cardinality(S) |->
        CHOOSE x \in S : Cardinality({y \in S : TupleLess(y, x)}) = i - 1]

\* the usernames the comprehension of lines 255-256 keeps
NonExcluded(u) == u \notin login_blacklist /\ lower(u) \notin login_blacklist

\* "a, b": the identifiers ascending, joined by a comma and a space, in quotes
PrefixList(S) == Quote(join(<<44,32>>, AscendingStrings(S)))

\* the text of the enumeration for the triples S: each in parentheses, its parts
\* and the triples separated by a space, ascending
EnumerationOf(S) ==
    LET q == AscendingTuples(S)
    IN  join(<<32>>, [i \in 1..Len(q) |-> <<40>> \o join(<<32>>, q[i]) \o <<41>>])

\* C18 as stated: every contributor that is not excluded has exactly one
\* triple: the username, the display name (UNDEF when there is none) and the
\* sorted, comma-joined record identifiers; the enumeration is the triples in
\* ascending order.
C18_OneSortedTriple ==
    github_logins # None =>
       /\ \A u \in DOMAIN contributors :
             NonExcluded(u) =>
                {t \in it : t[1] = Quote(u)} =
                   { << Quote(u),
                        IF contributors[u].name = None THEN <<85,78,68,69,70>>
                        ELSE Quote(contributors[u].name),
                        PrefixList(contributors[u].prefixes) >> }
       /\ github_logins = EnumerationOf(it)

\* C18 amended: ... the display name with its double quotes removed ...
C18_OneSortedTripleNameUnquoted ==
    github_logins # None =>
       /\ \A u \in DOMAIN contributors :
             NonExcluded(u) =>
                {t \in it : t[1] = Quote(u)} =
                   { << Quote(u),
                        IF contributors[u].name = None THEN <<85,78,68,69,70>>
                        ELSE Quote(SelectSeq(contributors[u].name, LAMBDA ch : ch # 34)),
                        PrefixList(contributors[u].prefixes) >> }
       /\ github_logins = EnumerationOf(it)

\* C18 witness: the query was built for cthoyt, named a"b, of the records a and
\* b, and cooperstansbury, without a name; it carries both.
C18_Witness ==
    /\ github_logins # None
    /\ DOMAIN contributors =
         {<<99,116,104,111,121,116>>, <<99,111,111,112,101,114,115,116,97,110,115,98,117,114,121>>}
    /\ contributors[<<99,116,104,111,121,116>>] =
         [name |-> <<97,34,98>>, prefixes |-> {<<97>>, <<98>>}]
    /\ contributors[<<99,111,111,112,101,114,115,116,97,110,115,98,117,114,121>>].name = None
    /\ Cardinality(it) = 2

---------------------------------------------------------------------------
(* create_responsible_quickstatements.py: copy_maintainer_quickstatements *)

\* the rows an answer of the graph-query service carries at most
MaxBindings == 2

\* http://www.wikidata.org/entity/
ENTITY_PREFIX == <<104,116,116,112,58,47,47,119,119,119,46,119,105,107,105,100,97,116,97,46,111,114,103,47,101,110,116,105,116,121,47>>
\* P126, S854, "https://obofoundry.org/registry/ontologies.jsonld" (quotes included)
P126 == <<80,49,50,54>>
S854 == <<83,56,53,52>>
REFERENCE_URL == <<34,104,116,116,112,115,58,47,47,111,98,111,102,111,117,110,100,114,121,46,111,114,103,47,114,101,103,105,115,116,114,121,47,111,110,116,111,108,111,103,105,101,115,46,106,115,111,110,108,100,34>>

\* lines 22-27 and 41-46: {record[k]["value"]: record[v]["value"].removeprefix(...)
\* for record in res}; a later row replaces an earlier one of the same key
RECURSIVE entity_mapping(_, _, _)
entity_mapping(records, k, v) ==
    IF records = <<>> THEN EmptyDict
    ELSE LET record == records[Len(records)]
         IN  (record[k].value :> removeprefix(record[v].value, ENTITY_PREFIX))
                @@ entity_mapping(SubSeq(records, 1, Len(records) - 1), k, v)

\* lines 11-27, given the service's answer to the query of lines 13-20
get_ontology_qids(answer) ==
    IF query_wikidata(answer.status).raised # "none"
    THEN Raised(query_wikidata(answer.status).raised)
    ELSE Returned(entity_mapping(answer.rows, "prefix", "item"))

\* lines 30-46, given the service's answer to the query of lines 32-39
get_orcid_to_qids(answer) ==
    IF query_wikidata(answer.status).raised # "none"
    THEN Raised(query_wikidata(answer.status).raised)
    ELSE Returned(entity_mapping(answer.rows, "orcid", "person"))

\* lines 93-97
prefix_to_maintainer_orcid(data) ==
    [key \in {k \in DOMAIN data :
                 /\ "contact" \in DOMAIN data[k]
                 /\ "orcid" \in DOMAIN data[k]["contact"]}
        |-> data[key]["contact"]["orcid"]]

\* lines 100-110: the list comprehension over the sorted items, from the first on;
\* orcid_to_qid[orcid] raises KeyError for an ORCID that is not a key
RECURSIVE maintainer_rows(_, _, _, _)
maintainer_rows(q, maintainer_orcid, orcid_to_qid, prefix_to_qid) ==
    IF q = <<>> THEN Returned(<<>>)
    ELSE LET key == Head(q)
             orcid == maintainer_orcid[key]
             rest == maintainer_rows(Tail(q), maintainer_orcid, orcid_to_qid,
                                     prefix_to_qid)
         IN  IF key \notin DOMAIN prefix_to_qid THEN rest
             ELSE IF orcid \notin DOMAIN orcid_to_qid THEN Raised("KeyError")
             ELSE IF rest.raised # "none" THEN rest
             ELSE Returned(<<<<prefix_to_qid[key], P126, orcid_to_qid[orcid], S854,
                               REFERENCE_URL>>>> \o rest.value)

\* line 111: "\n".join("|".join(row) for row in rows)
quickstatements_text(rows) ==
    join(<<10>>, [i \in 1..Len(rows) |-> join(<<124>>, rows[i])])

\* lines 92-111, given what get_data() returns and what the service answers
copy_maintainer_quickstatements(data, answers) ==
    LET maintainer_orcid == prefix_to_maintainer_orcid(data)
        orcid_to_qid == get_orcid_to_qids(answers.orcid)
        prefix_to_qid == get_ontology_qids(answers.ontology)
    IN  IF orcid_to_qid.raised # "none" THEN orcid_to_qid
        ELSE IF prefix_to_qid.raised # "none" THEN prefix_to_qid
        ELSE LET rows == maintainer_rows(sorted(DOMAIN maintainer_orcid),
                                         maintainer_orcid, orcid_to_qid.value,
                                         prefix_to_qid.value)
             IN  IF rows.raised # "none" THEN rows
                 ELSE Returned(quickstatements_text(rows.value))

CopyMaintainerQuickstatements ==
    /\ copied = NotCalled
    /\ copied' = copy_maintainer_quickstatements(contacts, bindings)
    /\ UNCHANGED <<contacts, bindings>>
    /\ UNCHANGED <<diskVars, procVars, curationVars, storeVars, testVars>>

\* ---- the stores and the answers the model runs on ----

\* 0000-0001, 0000-0002
ORCID_1 == <<48,48,48,48,45,48,48,48,49>>
ORCID_2 == <<48,48,48,48,45,48,48,48,50>>

\* the graph nodes the service knows
PERSON_1 == ENTITY_PREFIX \o <<81,49>>
PERSON_2 == ENTITY_PREFIX \o <<81,50>>
ITEM_ABC == ENTITY_PREFIX \o <<81,49,48>>
ITEM_XYZ == ENTITY_PREFIX \o <<81,50,48>>
\* that is: Q1, Q2, Q10, Q20 behind the entity prefix

\* a record without a contact, with a contact that has no ORCID, with a contact
\* that has one
ContactData(id) ==
    {BaseData(id), With(BaseData(id), "contact", [label |-> <<>>])}
    \cup {With(BaseData(id), "contact", [label |-> <<>>, orcid |-> o]) :
             o \in {ORCID_1, ORCID_2}}

\* what get_data() returns: a dict of up to two records
ContactStores ==
    UNION {[S -> UNION {ContactData(id) : id \in S}] : S \in SUBSET {ABC, XYZ}}

WellKeyed(data) == \A id \in DOMAIN data : data[id].preferredPrefix = id

\* lists of at most MaxBindings rows
RowLists(Rows) == UNION {[1..n -> Rows] : n \in 0..MaxBindings}

OrcidRows ==
    {[orcid |-> [value |-> o], person |-> [value |-> p]] :
        o \in {ORCID_1, ORCID_2}, p \in {PERSON_1, PERSON_2}}

OntologyRows ==
    {[prefix |-> [value |-> ABC], item |-> [value |-> ITEM_ABC]],
     [prefix |-> [value |-> XYZ], item |-> [value |-> ITEM_XYZ]]}

\* an answer: the rows of a successful one, or a failure status
Answers(Rows) ==
    {[status |-> "ok", rows |-> q] : q \in RowLists(Rows)}
    \cup {[status |-> "fail", rows |-> <<>>]}

\* the VALUES clause of line 36 lets the service answer for the ORCIDs asked only
AskedOnly(data, answer) ==
    \A i \in 1..Len(answer.rows) :
        \E key \in DOMAIN prefix_to_maintainer_orcid(data) :
            prefix_to_maintainer_orcid(data)[key] = answer.rows[i].orcid.value

InitQuick ==
    /\ DiskEmpty
    /\ ProcIdle
    /\ CurationIdle
    /\ StoreIdle
    /\ TestIdle
    /\ contacts \in {data \in ContactStores : WellKeyed(data)}
    /\ bindings \in {[orcid |-> a, ontology |-> b] :
                        a \in Answers(OrcidRows), b \in Answers(OntologyRows)}
    /\ AskedOnly(contacts, bindings.orcid)
    /\ copied = NotCalled

NextQuick == CopyMaintainerQuickstatements

SpecQuick == InitQuick /\ [][NextQuick]_vars

\* ---- C19 ----

HasMaintainer(data, key) == key \in DOMAIN prefix_to_maintainer_orcid(data)

\* the graph node the answer gives the key, as its last row of that key has it
NodeOf(rows, k, v, key) ==
    LET last == CHOOSE i \in 1..Len(rows) :
                   /\ rows[i][k].value = key
                   /\ \A j \in (i + 1)..Len(rows) : rows[j][k].value # key
    IN  removeprefix(rows[last][v].value, ENTITY_PREFIX)

HasNode(rows, k, key) == \E i \in 1..Len(rows) : rows[i][k].value = key

\* the records the claim gives a row: a contact ORCID, a graph node of the
\* identifier, and the ORCID resolved
RowRecords ==
    {key \in DOMAIN contacts :
        /\ HasMaintainer(contacts, key)
        /\ HasNode(bindings.ontology.rows, "prefix", key)
        /\ HasNode(bindings.orcid.rows, "orcid", contacts[key]["contact"]["orcid"])}

RowOf(key) ==
    <<NodeOf(bindings.ontology.rows, "prefix", "item", key), P126,
      NodeOf(bindings.orcid.rows, "orcid", "person", contacts[key]["contact"]["orcid"]),
      S854, REFERENCE_URL>>

BothAnswered == bindings.orcid.status = "ok" /\ bindings.ontology.status = "ok"

\* C19: whatever the store and whatever the service answers to the two queries,
\* copy_maintainer_quickstatements completes, and what it copies is one row
\* (record's node|P126|maintainer's node|S854|reference URL) for each record with
\* a contact ORCID whose identifier has a node; a record whose ORCID the service
\* did not resolve gives no row and no failure
C19_MaintainerRowsNeverFail ==
    (copied # NotCalled /\ BothAnswered) =>
        /\ copied.raised = "none"
        /\ \E q \in [1..Cardinality(RowRecords) -> RowRecords] :
              /\ \A key \in RowRecords : \E i \in DOMAIN q : q[i] = key
              /\ copied.value =
                    join(<<10>>, [i \in DOMAIN q |-> join(<<124>>, RowOf(q[i]))])

\* the same with every contact ORCID of a record that has a node resolved
C19_RowsWhenAllResolved ==
    (/\ copied # NotCalled
     /\ BothAnswered
     /\ \A key \in DOMAIN contacts :
           (HasMaintainer(contacts, key)
              /\ HasNode(bindings.ontology.rows, "prefix", key))
           => key \in RowRecords)
    => C19_MaintainerRowsNeverFail

C19_TwoRows ==
    /\ copied.raised = "none"
    /\ Cardinality(RowRecords) = 2

---------------------------------------------------------------------------
(* The requests of one run of get_contributors *)

ListRequests(p) == {i \in 1..Len(sent) : sent[i] = [kind |-> "list", target |-> p]}

\* the profile requests of a username, whatever its letter case
ProfileRequests(n) ==
    {i \in 1..Len(sent) : sent[i].kind = "user" /\ lower(sent[i].target) = n}

Fetching == {"users", "user_fetch", "user_write", "write"}

\* what the process has sent so far
OneRequestEach ==
    /\ \A i \in 1..Len(sent) :
          \/ sent[i].kind = "list" /\ sent[i].target \in Repositories
          \/ sent[i].kind = "user" /\ sent[i].target \in Logins
    /\ \A p \in Repositories : Cardinality(ListRequests(p)) <= 1
    /\ pc \in Fetching => Cardinality(ListRequests(prefix)) = 1
    /\ \A n \in UserFileNames : Cardinality(ProfileRequests(n)) <= 1

\* what a step of the process sends
OneRequestAStep ==
    /\ (pc = "loop" /\ ProcessStep /\ run' = run) =>
          /\ sent' = sent
          /\ pc' = "fetch" <=> (todo # <<>> /\ recFiles[Head(todo)].kind = "absent")
    /\ (pc = "fetch" /\ ProcessStep /\ pc' # "raised") =>
          /\ sent' = Append(sent, [kind |-> "list", target |-> prefix])
          /\ pc' = "users"
    /\ (pc = "users" /\ ProcessStep /\ res_json.t = "list" /\ res_json.v # <<>>) =>
          /\ sent' = sent
          /\ pc' = "user_fetch" <=>
                userFiles[lower(Head(res_json.v).login)].kind = "absent"
          /\ pc' = "user_fetch" => login' = Head(res_json.v).login
    /\ (pc = "user_fetch" /\ ProcessStep /\ pc' # "raised") =>
          /\ sent' = Append(sent, [kind |-> "user", target |-> login])
          /\ pc' = "user_write"
    /\ (pc = "user_write" /\ ProcessStep) =>
          /\ sent' = sent
          /\ pc' = "users"
          /\ res_json'.v = Tail(res_json.v)
    /\ sent' \notin {sent, <<>>} => pc \in {"fetch", "user_fetch"}

\* C21: processing a record that has no contributors file sends one
\* contributor-list request for it, the only page asked for, and one profile
\* request for each contributor of the list whose lower-cased file is absent when
\* the contributor is reached; a run sends no second list request for a record
\* and no second profile request for a username, letter case aside.
C21_OneRequestPerUser ==
    /\ []OneRequestEach
    /\ [][OneRequestAStep]_vars

\* C21 witness: one run fetched the records a and b; "a" contributes to a and "A"
\* to b, and the run asked for the profile once.
C21_Witness ==
    /\ run = 1
    /\ pc = "returned"
    /\ sent = << [kind |-> "list", target |-> <<97>>],
                 [kind |-> "user", target |-> <<97>>],
                 [kind |-> "list", target |-> <<98>>] >>
    /\ <<97>> \in DOMAIN recFiles[<<97>>].data
    /\ <<65>> \in DOMAIN recFiles[<<98>>].data

---------------------------------------------------------------------------
(* The merged view get_contributors returns *)

\* the records whose mapping, as their file holds it, has the username
RecordsOf(u) ==
    {p \in Repositories : recFiles[p].kind = "json" /\ u \in DOMAIN recFiles[p].data}

\* the last of them in the sorted order of the identifiers
LastRecordOf(u) ==
    CHOOSE p \in RecordsOf(u) : \A q \in RecordsOf(u) \ {p} : StrLess(q, p)

Attributes ==
    {"contributions", "name", "email", "bio", "blog", "company", "twitter_username"}

LastWriteWins ==
    pc = "returned" =>
       /\ \A p \in Repositories : recFiles[p].kind = "json"
       /\ DOMAIN authors = UNION {DOMAIN recFiles[p].data : p \in Repositories}
       /\ \A u \in DOMAIN authors :
             /\ DOMAIN authors[u] = Attributes \cup {"prefixes"}
             /\ \A k \in Attributes :
                   authors[u][k] = recFiles[LastRecordOf(u)].data[u][k]
             /\ authors[u]["prefixes"] = RecordsOf(u)

MergeLeavesFiles ==
    (pc \in {"accumulate", "merge"} /\ ProcessStep) => recFiles' = recFiles

\* C22: the mapping get_contributors returns has, for every username of the
\* records' mappings, the attribute values of the last record in sorted order
\* whose mapping has the username, and as prefixes all the records whose mapping
\* has it; accumulating and merging leave every record's file as it is.
C22_LastWriteWins ==
    /\ []LastWriteWins
    /\ [][MergeLeavesFiles]_vars

\* C22 witness: "a" has 1 contribution to record a and 2 to record b; the returned
\* mapping gives "a" 2 contributions and both records.
C22_Witness ==
    /\ pc = "returned"
    /\ <<97>> \in DOMAIN authors
    /\ RecordsOf(<<97>>) = {<<97>>, <<98>>}
    /\ recFiles[<<97>>].data[<<97>>].contributions = 1
    /\ recFiles[<<98>>].data[<<97>>].contributions = 2
    /\ authors[<<97>>]["contributions"] = 2
    /\ authors[<<97>>]["prefixes"] = {<<97>>, <<98>>}

=============================================================================
